---- MODULE Spec2Model ----
(***************************************************************************)
(* Model of the safety-analysis pipeline of PatientSafetyApp:              *)
(*   - getComprehensiveSafetyAnalysis (services/MedicalSafetyService.ts),  *)
(*     the orchestrator of the six sub-analyses, and                       *)
(*   - checkMedicationInteractions (five-strategy version, FdaService of   *)
(*     unnamed/part_007), the interaction aggregator.                      *)
(* One run of one operation is modelled per behaviour; the two operations  *)
(* share no state in the program, and each has its own specification.      *)
(* An action is one JavaScript turn: from the arrival of the event that    *)
(* resumes the async function to its next await on an external event.      *)
(***************************************************************************)
EXTENDS Integers, Sequences, FiniteSets, TLC

\* ----------------------------------------------------------------- bounds
MaxSymptoms == 2
MaxDiagnoses == 1
MaxMedications == 1
MaxMedNames == 3
MaxResults == 2
MaxCallMedications == 2
MaxSentences == 5
\* Mutations of the patient record started in one behaviour.
MaxMutations == 3

\* ------------------------------------------------------- JavaScript values
\* A property that is absent from an object reads as undefined.
UNDEFINED == "<undefined>"
JsNull == [t |-> "null"]
JsUndefined == [t |-> "undefined"]
JsArray(s) == [t |-> "array", v |-> s]
JsObject(o) == [t |-> "object", v |-> o]
Pending == [t |-> "pending"]
\* Truthiness of the values above: arrays (empty ones too) and objects are truthy.
Truthy(x) == x.t \in {"array", "object"}

\* The result of an evaluation that may throw.
Ok(x) == [threw |-> FALSE, v |-> x, msg |-> ""]
Thrown(m) == [threw |-> TRUE, v |-> JsUndefined, msg |-> m]
TypeErrorToLowerCase == "TypeError: Cannot read properties of undefined (reading 'toLowerCase')"
TypeErrorLengthOfNull == "TypeError: Cannot read properties of null (reading 'length')"
TypeErrorLengthOfUndefined == "TypeError: Cannot read properties of undefined (reading 'length')"

SeqsUpTo(S, n) == UNION {[1..k -> S] : k \in 0..n}
RECURSIVE Concat(_)
Concat(ss) == IF ss = <<>> THEN <<>> ELSE Head(ss) \o Concat(Tail(ss))

\* String.prototype.toLowerCase on the names the model draws from.
ToLowerCase(s) ==
  CASE s = "Headache" -> "headache"
    [] s = "Hypertension" -> "hypertension"
    [] s = "Wound infection" -> "wound infection"
    [] s = "Ibuprofen" -> "ibuprofen"
    [] s = "Warfarin" -> "warfarin"
    [] s = "Insulin Glargine" -> "insulin glargine"
    [] s = "Lorazepam" -> "lorazepam"
    [] s = "Metoprolol" -> "metoprolol"
    [] s = "Celebrex" -> "celebrex"
    [] s = "Metformin" -> "metformin"
    \* interaction descriptions
    [] s = "No known interaction." -> "no known interaction."
    [] s = "Contraindicated: monitor INR." -> "contraindicated: monitor inr."
    [] s = "AVOID; use caution." -> "avoid; use caution."
    [] s = "May increase bleeding." -> "may increase bleeding."
    [] s = "Risk of hemorrhage; adjust dose." -> "risk of hemorrhage; adjust dose."
    [] s = "Dangerous." -> "dangerous."
    [] s = "Potential effect." -> "potential effect."
    [] s = "Not Recommended." -> "not recommended."
    [] s = "Boxed WARNING: fatal." -> "boxed warning: fatal."
    [] s = "May affect levels; modify dose." -> "may affect levels; modify dose."
    [] s = "Increased severe risk; decrease dose." -> "increased severe risk; decrease dose."
    \* sentences of interaction texts
    [] s = "Concurrent use may cause serious bleeding"
         -> "concurrent use may cause serious bleeding"
    [] s = "Patients should avoid concurrent use" -> "patients should avoid concurrent use"
    [] s = "Store at controlled room temperature" -> "store at controlled room temperature"
    [] s = "Avoid use" -> "avoid use"
    [] s = "Ibuprofen increases the risk of bleeding with warfarin"
         -> "ibuprofen increases the risk of bleeding with warfarin"
    [] s = "Avoid concurrent use of these drugs" -> "avoid concurrent use of these drugs"
    \* label texts, and the piece two joined label texts share
    [] s = "Ibuprofen increases the risk of bleeding with warfarin. Avoid concurrent use of these drugs"
         -> "ibuprofen increases the risk of bleeding with warfarin. avoid concurrent use of these drugs"
    [] s = "Ibuprofen increases the risk of bleeding with warfarin. Avoid concurrent use of these drugs Ibuprofen increases the risk of bleeding with warfarin. Avoid concurrent use of these drugs"
         -> "ibuprofen increases the risk of bleeding with warfarin. avoid concurrent use of these drugs ibuprofen increases the risk of bleeding with warfarin. avoid concurrent use of these drugs"
    [] s = "Avoid concurrent use of these drugs Ibuprofen increases the risk of bleeding with warfarin"
         -> "avoid concurrent use of these drugs ibuprofen increases the risk of bleeding with warfarin"
    [] OTHER -> s

\* The keywords of the service's tables that occur as substrings of a
\* (lower-cased) name or text the model draws from.
KeywordsIn(s) ==
  CASE s = "headache" -> {"headache", "head"}
    [] s = "fever" -> {"fever"}
    [] s = "cough" -> {"cough"}
    [] s = "hypertension" -> {"hypertension"}
    [] s = "wound infection" -> {"wound", "infection", "wound infection"}
    [] s = "ibuprofen" -> {"ibuprofen"}
    [] s = "warfarin" -> {"warfarin"}
    [] s = "insulin glargine" -> {"insulin"}
    [] s = "lorazepam" -> {"lorazepam"}
    [] s = "metoprolol" -> {"metoprolol"}
    [] s = "celebrex" -> {"celebrex"}
    [] s = "metformin" -> {"metformin"}
    \* symptom and diagnosis names of the infection-risk analysis
    [] s = "chills" -> {"chills"}
    [] s = "incision" -> {"incision"}
    [] s = "diarrhea" -> {"diarrhea"}
    [] s = "rash" -> {"rash"}
    [] s = "burning" -> {"burning", "burn"}
    [] s = "breathlessness" -> {"breath"}
    [] s = "catheter" -> {"catheter"}
    [] s = "surgery" -> {"surgery"}
    [] s = "ventilator" -> {"ventilator"}
    [] s = "antibiotic" -> {"antibiotic"}
    [] s = "staph" -> {"staph"}
    [] s = "follows the headache" -> {"headache"}
    \* interaction descriptions (the terms of the two severity classifiers)
    [] s = "contraindicated: monitor inr." -> {"contraindicated", "monitor"}
    [] s = "avoid; use caution." -> {"avoid", "caution"}
    [] s = "may increase bleeding." -> {"increase", "may increase", "bleeding"}
    [] s = "risk of hemorrhage; adjust dose." -> {"hemorrhage", "adjust"}
    [] s = "dangerous." -> {"dangerous"}
    [] s = "potential effect." -> {"potential"}
    [] s = "not recommended." -> {"not recommended"}
    [] s = "boxed warning: fatal." -> {"warning", "fatal"}
    [] s = "may affect levels; modify dose." -> {"may affect", "modify"}
    [] s = "increased severe risk; decrease dose." -> {"increase", "severe", "decrease"}
    \* sentences of interaction texts (the terms of the severity classifiers
    \* and of the sentence filters of extractDirectFromFdaText)
    [] s = "concurrent use may cause serious bleeding"
         -> {"may", "cause", "serious", "bleeding"}
    [] s = "patients should avoid concurrent use" -> {"should", "avoid"}
    [] s = "store at controlled room temperature" -> {"temperature"}
    [] s = "avoid use" -> {"avoid"}
    [] s = "ibuprofen increases the risk of bleeding with warfarin"
         -> {"ibuprofen", "warfarin", "increas", "increase", "risk", "bleeding"}
    [] s = "avoid concurrent use of these drugs" -> {"avoid"}
    \* label texts, and the piece two joined label texts share
    [] s = "ibuprofen increases the risk of bleeding with warfarin. avoid concurrent use of these drugs"
         -> {"ibuprofen", "warfarin", "increas", "increase", "risk", "bleeding", "avoid"}
    [] s = "ibuprofen increases the risk of bleeding with warfarin. avoid concurrent use of these drugs ibuprofen increases the risk of bleeding with warfarin. avoid concurrent use of these drugs"
         -> {"ibuprofen", "warfarin", "increas", "increase", "risk", "bleeding", "avoid"}
    [] s = "avoid concurrent use of these drugs ibuprofen increases the risk of bleeding with warfarin"
         -> {"ibuprofen", "warfarin", "increas", "increase", "risk", "bleeding", "avoid"}
    [] OTHER -> {}
\* String.prototype.includes(kw)
Includes(s, kw) == kw \in KeywordsIn(s) \/ kw = s
IncludesAny(s, kws) == \E kw \in kws : Includes(s, kw)

\* ------------------------------------------------------------------ inputs
\* Symptom records as the repository creates them: with name and a 1-10
\* severity (types/index.ts, AddSymptomScreen), or with description and no
\* name (the symptoms screen of unnamed/part_005, whose severity is one of
\* the strings low/medium/high: it compares false against >= 7, as 0 does).
SymptomUniverse ==
  { [id |-> "s1", name |-> "Headache", description |-> UNDEFINED, severity |-> 9],
    [id |-> "s2", name |-> "fever", description |-> UNDEFINED, severity |-> 3],
    [id |-> "s3", name |-> UNDEFINED, description |-> "cough", severity |-> 0] }
DiagnosisUniverse ==
  { [id |-> "d1", name |-> "Hypertension", notes |-> UNDEFINED],
    [id |-> "d2", name |-> "Wound infection", notes |-> "follows the headache"] }
MedicationUniverse ==
  { [id |-> "m1", name |-> "Ibuprofen", dosage |-> "200mg"],
    [id |-> "m2", name |-> "Insulin Glargine", dosage |-> "10u"] }

\* A record shaped as the Symptom type of types/index.ts.
TypedSymptom(s) == s.name # UNDEFINED /\ s.description = UNDEFINED
TypedSymptoms(ss) == \A i \in 1..Len(ss) : TypedSymptom(ss[i])

Analyses == {"symptom", "diagnosis", "diagnosticError"}
SubAnalyses == Analyses \cup {"medicationEffects", "medicationErrors", "hai"}

VARIABLES
  \* --- getComprehensiveSafetyAnalysis
  symptoms, diagnoses, medications,   \* the arguments
  pc,            \* where the orchestrator is suspended: start, await, medEffects, done, idle
  safe,          \* per raced analysis: what safeApiCall resolved with, or Pending
  inner,         \* per raced analysis: state of the analysis' own promise
  locals,        \* extracted*Data of the try block, across the await of medication effects
  caught,        \* the message of the exception the top-level catch received
  report,        \* the object the call resolved with
  outcome,       \* "running", "returned" or "rejected"
  rejection,     \* the message of the exception the call rejected with
  \* history of the run, not read by the program
  calls,         \* per sub-analysis: how often its function was invoked
  fallbacks,     \* the sub-analyses whose result the orchestrator replaced
  extIssued,     \* some outbound request was issued in this run
  extOk,         \* some outbound request of this run was answered successfully
  \* --- checkMedicationInteractions
  medNames,      \* the argument: a list of medication names
  pair,          \* the loop indices i and j (1-based)
  strategy,      \* the strategy whose request is in flight (0: none)
  response,      \* the local variable response: null or the results of the last answer
  interactions,  \* the records pushed so far
  result,        \* "idle", "running", "returned" or "rejected"
  considered,    \* history: the index pairs the loops reached, in order
  lookups,       \* history: the requests issued, in order, as <<i, j, strategy>>
  rerun,         \* a second run of checkMedicationInteractions on the same list
  \* --- the functions called on their own
  applied,       \* a call of one function: its name, arguments and return value
  \* --- PatientContext
  patient,       \* the provider's state patient: null or the record
  stored,        \* the AsyncStorage item 'patient': null or a JSON text
  loading,       \* the provider's state loading
  error,         \* the provider's state error
  inflight,      \* the mutations suspended at AsyncStorage.setItem
  settled,       \* history: the mutations whose promise has settled, in order
  started,       \* history: how many mutations have been started
  \* --- checkMedicationInteractions of services/FdaService.ts, and its caller
  svcMedications,      \* the argument: a list of medication names
  svcPair,             \* the position in the pair loops (0: not started)
  svcAttempt,          \* the request in flight for the pair: the first or the second
  svcInteractions,     \* the local list interactions
  svcResult,           \* "idle", "start", "running", "returned" or "rejected"
  svcRejection,        \* the message of the error the call rejected with
  svcLookups,          \* history: the requests issued, in order, and how each ended
  screenInteractions,  \* the state interactions of AnalysisScreen
  screenError          \* the state error of AnalysisScreen

analysisVars == <<symptoms, diagnoses, medications, pc, safe, inner, locals, caught,
                  report, outcome, rejection, calls, fallbacks, extIssued, extOk>>
interactionVars == <<medNames, pair, strategy, response, interactions, result,
                     considered, lookups>>
storeVars == <<patient, stored, loading, error, inflight, settled, started>>
serviceVars == <<svcMedications, svcPair, svcAttempt, svcInteractions, svcResult,
                 svcRejection, svcLookups, screenInteractions, screenError>>
vars == <<analysisVars, interactionVars, rerun, applied, storeVars, serviceVars>>

\* ------------------------------------------------- local (mock) generators
\* The lists of a safety record are canned text blocks; content names the block.
getMockSymptomSafetyData(symptomName) ==
  IF symptomName = UNDEFINED THEN Thrown(TypeErrorToLowerCase)
  ELSE Ok([symptomName |-> symptomName,
           content |-> IF IncludesAny(ToLowerCase(symptomName), {"headache", "head pain"})
                         THEN "mock:headache"
                       ELSE IF IncludesAny(ToLowerCase(symptomName), {"fever", "temperature"})
                         THEN "mock:fever"
                       ELSE "mock:generic"])

getMockDiagnosisSafetyData(diagnosisName) ==
  IF diagnosisName = UNDEFINED THEN Thrown(TypeErrorToLowerCase)
  ELSE Ok([diagnosisName |-> diagnosisName,
           content |-> IF IncludesAny(ToLowerCase(diagnosisName),
                                      {"hypertension", "high blood pressure"})
                         THEN "mock:hypertension"
                       ELSE IF Includes(ToLowerCase(diagnosisName), "diabetes")
                         THEN "mock:diabetes"
                       ELSE "mock:generic"])

RECURSIVE FirstThrowing(_, _)
\* Index of the first element of a list of evaluation results that threw; 0 if none.
FirstThrowing(rs, i) ==
  IF i > Len(rs) THEN 0 ELSE IF rs[i].threw THEN i ELSE FirstThrowing(rs, i + 1)
\* Array.prototype.map over evaluations that may throw: the first exception ends it.
MapResults(rs) ==
  IF FirstThrowing(rs, 1) # 0 THEN Thrown(rs[FirstThrowing(rs, 1)].msg)
  ELSE Ok(JsArray([i \in 1..Len(rs) |-> rs[i].v]))

\* symptoms.map((s) => getMockSymptomSafetyData(s.description))
MockSymptoms(ss) ==
  MapResults([i \in 1..Len(ss) |-> getMockSymptomSafetyData(ss[i].description)])
\* diagnoses.map((d) => getMockDiagnosisSafetyData(d.name))
MockDiagnoses(ds) ==
  MapResults([i \in 1..Len(ds) |-> getMockDiagnosisSafetyData(ds[i].name)])

\* The canned diagnostic-error block of the orchestrator (why: the tail of its concern).
DiagnosticErrorFallback(why) ==
  JsObject([riskLevel |-> "low",
            potentialConcerns |-> JsArray(<<"Unable to evaluate diagnostic error risk " \o why>>),
            recommendations |-> JsArray(<<"Keep track of all symptoms and when they began",
                                          "Share complete medical history with your healthcare provider">>)])

\* ------------------------------------------------------------ sub-analyses
\* How the outbound requests made for one entity end, when they end:
\*   "specific": the entity-specific endpoint answers 200 with a payload
\*   "general":  the general (FDA/CDC/AHRQ) requests are answered
\*   "fail":     every request is rejected (network error, HTTP error)
\* A request that is never answered is the absence of a step.
ExtOutcomes == {"specific", "general", "fail"}

\* The reaction terms of getSampleFdaEventData, lower-cased.
SampleEventReactions == {"headache", "nausea", "fever", "fatigue"}

\* fetchSymptomSafetyData followed by enhanceSymptomSafetyData (which keeps
\* symptomName and only extends lists from local NIH/CDC generators).  When
\* every request fails the sample FDA events are scanned for the symptom,
\* and the mock generator is used if they do not mention it.
fetchSymptomSafetyData(symptomName, out) ==
  CASE out = "specific" -> [symptomName |-> "<payload>", content |-> "remote:specific"]
    [] out = "general" -> [symptomName |-> symptomName, content |-> "remote:general"]
    [] OTHER -> IF \E r \in SampleEventReactions : Includes(r, symptomName)
                  THEN [symptomName |-> symptomName, content |-> "sample:fda"]
                  ELSE getMockSymptomSafetyData(symptomName).v

\* fetchDiagnosisSafetyData followed by enhanceDiagnosisSafetyData.  When
\* every request fails the sample FDA label (which carries warnings) is used.
fetchDiagnosisSafetyData(diagnosisName, out) ==
  CASE out = "specific" -> [diagnosisName |-> "<payload>", content |-> "remote:specific"]
    [] out = "general" -> [diagnosisName |-> diagnosisName, content |-> "remote:general"]
    [] OTHER -> [diagnosisName |-> diagnosisName, content |-> "sample:fda"]

\* The entities an analysis loop reaches: those before the first one whose
\* name is undefined (symptom.name.toLowerCase() throws there).
RECURSIVE NamedPrefixLen(_, _)
NamedPrefixLen(xs, i) ==
  IF i > Len(xs) \/ xs[i].name = UNDEFINED THEN i - 1 ELSE NamedPrefixLen(xs, i + 1)
AllNamed(xs) == NamedPrefixLen(xs, 1) = Len(xs)

\* analyzeSymptomSafety: outs gives the end of the requests of each symptom reached.
analyzeSymptomSafety(ss, outs) ==
  IF ~AllNamed(ss) THEN Thrown(TypeErrorToLowerCase)
  ELSE Ok(JsArray([i \in 1..Len(ss) |->
                     fetchSymptomSafetyData(ToLowerCase(ss[i].name), outs[i])]))

analyzeDiagnosisSafety(ds, outs) ==
  IF ~AllNamed(ds) THEN Thrown(TypeErrorToLowerCase)
  ELSE Ok(JsArray([i \in 1..Len(ds) |->
                     fetchDiagnosisSafetyData(ToLowerCase(ds[i].name), outs[i])]))

\* evaluateDiagnosticErrorRisk(symptoms, diagnoses), up to its first await:
\* the log line reads symptoms.length and diagnoses.length.
evaluateDiagnosticErrorRiskEntry(symptomsArg, diagnosesArg) ==
  IF symptomsArg.t \in {"null", "undefined"} THEN Thrown(TypeErrorLengthOfUndefined)
  ELSE IF diagnosesArg.t = "undefined" THEN Thrown(TypeErrorLengthOfUndefined)
  ELSE IF diagnosesArg.t = "null" THEN Thrown(TypeErrorLengthOfNull)
  ELSE Ok(Pending)

\* The reaction terms of the events the misdiagnosis query is answered with,
\* in order (lower-cased); a term can recur from event to event.
MisdiagnosisReactions == <<"headache", "fever", "headache">>
\* The results the patient_medication_information query is answered with:
\* whether the result has an entry containing "tell your doctor".
MedicationInformationResults == <<TRUE, FALSE, TRUE>>

\* Variant: the list as it was built.
KeepAll(xs) == xs
\* [...new Set(xs)]: the first occurrence of each string, in order.
RECURSIVE Dedup(_)
Dedup(xs) ==
  IF Len(xs) = 0 THEN <<>>
  ELSE LET front == Dedup(SubSeq(xs, 1, Len(xs) - 1))
       IN IF \E i \in 1..Len(front) : front[i] = xs[Len(xs)] THEN front
          ELSE Append(front, xs[Len(xs)])

\* evaluateDiagnosticErrorRisk after its first await, for array arguments.
\* out: how the two FDA requests end.  The statements assign riskLevel in
\* this order: FDA match (medium), unassessed severe symptoms (high), severe
\* symptom not addressed by a diagnosis note (medium).
evaluateDiagnosticErrorRisk(ss, ds, out) ==
  LET high == SelectSeq(ss, LAMBDA x : x.severity >= 7)
      fdaReactions ==
        IF out # "fail" /\ AllNamed(ss)
          THEN SelectSeq(MisdiagnosisReactions, LAMBDA r :
                 \E i \in 1..Len(ss) : Includes(r, ToLowerCase(ss[i].name)))
          ELSE <<>>
      fdaHit == Len(fdaReactions) > 0
      fdaAdvice == IF out # "fail" THEN SelectSeq(MedicationInformationResults, LAMBDA t : t)
                   ELSE <<>>
      unassessed == Len(high) > 0 /\ Len(ds) = 0
      unaddressed == SelectSeq(high, LAMBDA x :
                       ~\E d \in 1..Len(ds) :
                          /\ ds[d].notes # UNDEFINED
                          /\ Includes(ToLowerCase(ds[d].notes), ToLowerCase(x.name)))
  IN Ok(JsObject(
       [riskLevel |-> IF Len(unaddressed) > 0 THEN "medium"
                      ELSE IF unassessed THEN "high"
                      ELSE IF fdaHit THEN "medium" ELSE "low",
        potentialConcerns |->
          JsArray(Dedup(
            [i \in 1..Len(fdaReactions) |->
               fdaReactions[i] \o " has been associated with diagnostic errors"]
            \o (IF unassessed THEN <<"severe symptoms without a diagnosis">> ELSE <<>>)
            \o [i \in 1..Len(unaddressed) |-> "not addressed: " \o unaddressed[i].name])),
        recommendations |->
          JsArray(Dedup(
            (IF unassessed THEN <<"seek evaluation of severe symptoms">> ELSE <<>>)
            \o [i \in 1..Len(fdaAdvice) |-> "fda: tell your doctor"]
            \o <<"general recommendations">>))]))

\* analyzeSymptomSafety / analyzeDiagnosisSafety up to the first await: an
\* empty list resolves at once, a first entity without a name throws at once.
analyzeEntry(xs) ==
  IF Len(xs) = 0 THEN Ok(JsArray(<<>>))
  ELSE IF xs[1].name = UNDEFINED THEN Thrown(TypeErrorToLowerCase)
  ELSE Ok(Pending)

\* ------------------------------------------------ analyzeMedicationEffects
\* How the label request of one medication ends, when it ends: "label" (a
\* label is returned), "none" (no results), "fail" (rejected: the sample
\* label of getSampleFdaLabelData is used instead).
MedOutcomes == {"label", "none", "fail"}

\* A label section is modelled by the lower-cased entity names its text contains.
ApiLabel ==
  [adverse_reactions |-> {"headache"}, indications_and_usage |-> {"fever", "hypertension"},
   contraindications |-> {"wound infection"}, precautions |-> {}]
SampleLabel ==
  [adverse_reactions |-> {"headache"}, indications_and_usage |-> {},
   contraindications |-> {}, precautions |-> {}]
LabelFor(out) == IF out = "fail" THEN SampleLabel ELSE ApiLabel

SymptomEffectsOfLabel(med, label, s) ==
  (IF ToLowerCase(s.name) \in label.adverse_reactions
     THEN <<[medicationName |-> med.name, symptomName |-> s.name, severity |-> "concerning"]>>
     ELSE <<>>)
  \o (IF ToLowerCase(s.name) \in label.indications_and_usage
        THEN <<[medicationName |-> med.name, symptomName |-> s.name, severity |-> "beneficial"]>>
        ELSE <<>>)

DiagnosisEffectsOfLabel(med, label, d) ==
  (IF ToLowerCase(d.name) \in label.indications_and_usage
     THEN <<[medicationName |-> med.name, diagnosisName |-> d.name, severity |-> "beneficial"]>>
     ELSE <<>>)
  \o (IF ToLowerCase(d.name) \in label.contraindications
        THEN <<[medicationName |-> med.name, diagnosisName |-> d.name, severity |-> "concerning"]>>
        ELSE <<>>)
  \o (IF ToLowerCase(d.name) \in label.precautions
        THEN <<[medicationName |-> med.name, diagnosisName |-> d.name, severity |-> "neutral"]>>
        ELSE <<>>)

\* The body of the per-medication try block: the symptom loop runs up to the
\* first symptom without a name, whose exception the block's catch absorbs
\* (the effects pushed before it stay, the diagnosis loop is skipped).
MedicationLabelEffects(med, ss, ds, out) ==
  IF out = "none" THEN [sym |-> <<>>, dia |-> <<>>]
  ELSE [sym |-> Concat([i \in 1..NamedPrefixLen(ss, 1) |->
                          SymptomEffectsOfLabel(med, LabelFor(out), ss[i])]),
        dia |-> IF AllNamed(ss)
                  THEN Concat([i \in 1..Len(ds) |->
                                 DiagnosisEffectsOfLabel(med, LabelFor(out), ds[i])])
                  ELSE <<>>]

\* The name tests of the local heuristics used when no label produced an effect.
RelievesSymptoms(med) == IncludesAny(ToLowerCase(med.name), {"ibuprofen", "aspirin", "naproxen"})
IsAntibiotic(med) == Includes(ToLowerCase(med.name), "antibiotic")
HeuristicSymptomEffects(med, s) ==
  (IF RelievesSymptoms(med) /\ IncludesAny(ToLowerCase(s.name), {"pain", "headache", "fever"})
     THEN <<[medicationName |-> med.name, symptomName |-> s.name, severity |-> "beneficial"]>>
     ELSE <<>>)
  \o (IF IsAntibiotic(med) /\ IncludesAny(ToLowerCase(s.name), {"nausea", "diarrhea"})
        THEN <<[medicationName |-> med.name, symptomName |-> s.name, severity |-> "concerning"]>>
        ELSE <<>>)
HeuristicDiagnosisEffects(med, d) ==
  (IF Includes(ToLowerCase(med.name), "statin") /\ Includes(ToLowerCase(d.name), "cholesterol")
     THEN <<[medicationName |-> med.name, diagnosisName |-> d.name, severity |-> "beneficial"]>>
     ELSE <<>>)
  \o (IF Includes(ToLowerCase(med.name), "nsaid")
         /\ IncludesAny(ToLowerCase(d.name), {"ulcer", "bleeding"})
        THEN <<[medicationName |-> med.name, diagnosisName |-> d.name, severity |-> "concerning"]>>
        ELSE <<>>)

\* analyzeMedicationEffects: outs gives the end of each medication's request.
analyzeMedicationEffects(meds, ss, ds, outs) ==
  LET per == [m \in 1..Len(meds) |-> MedicationLabelEffects(meds[m], ss, ds, outs[m])]
      sym == Concat([m \in 1..Len(meds) |-> per[m].sym])
      dia == Concat([m \in 1..Len(meds) |-> per[m].dia])
  IN IF sym = <<>> /\ dia = <<>> /\ Len(meds) > 0
       THEN \* the heuristics read symptom.name outside any try block
            IF \E m \in 1..Len(meds) : \E i \in 1..Len(ss) :
                 /\ ss[i].name = UNDEFINED
                 /\ (RelievesSymptoms(meds[m]) \/ IsAntibiotic(meds[m]))
              THEN Thrown(TypeErrorToLowerCase)
              ELSE Ok(JsObject(
                     [medicationSymptomEffects |->
                        JsArray(Concat([m \in 1..Len(meds) |->
                          Concat([i \in 1..Len(ss) |-> HeuristicSymptomEffects(meds[m], ss[i])])])),
                      medicationDiagnosisEffects |->
                        JsArray(Concat([m \in 1..Len(meds) |->
                          Concat([i \in 1..Len(ds) |-> HeuristicDiagnosisEffects(meds[m], ds[i])])]))]))
       ELSE Ok(JsObject([medicationSymptomEffects |-> JsArray(sym),
                         medicationDiagnosisEffects |-> JsArray(dia)]))

EmptyMedicationEffects ==
  JsObject([medicationSymptomEffects |-> JsArray(<<>>), medicationDiagnosisEffects |-> JsArray(<<>>)])

\* --------------------------------------------- analyzeMedicationErrorRisks
HighAlertMeds ==
  {"insulin", "heparin", "warfarin", "fentanyl", "hydromorphone", "morphine", "digoxin",
   "epinephrine", "norepinephrine", "potassium", "methotrexate", "chemotherapy",
   "anesthetics", "paralytics", "propofol", "midazolam", "lorazepam", "diazepam"}
\* Object.keys(lasaPairs), in insertion order, and lasaPairs[key].
LasaKeys ==
  <<"hydroxyzine", "hydralazine", "metoprolol", "metoclopramide", "clonidine", "clonazepam",
    "klonopin", "alprazolam", "lorazepam", "atenolol", "albuterol", "amiodarone",
    "amantadine", "celebrex", "celexa", "cerebyx", "tramadol", "trazodone">>
LasaPairs(key) ==
  CASE key = "hydroxyzine" -> <<"hydralazine">>
    [] key = "hydralazine" -> <<"hydroxyzine">>
    [] key = "metoprolol" -> <<"metoclopramide">>
    [] key = "metoclopramide" -> <<"metoprolol">>
    [] key = "clonidine" -> <<"clonazepam", "klonopin">>
    [] key = "clonazepam" -> <<"clonidine">>
    [] key = "klonopin" -> <<"clonidine">>
    [] key = "alprazolam" -> <<"lorazepam">>
    [] key = "lorazepam" -> <<"alprazolam">>
    [] key = "atenolol" -> <<"albuterol", "timolol">>
    [] key = "albuterol" -> <<"atenolol">>
    [] key = "amiodarone" -> <<"amantadine">>
    [] key = "amantadine" -> <<"amiodarone">>
    [] key = "celebrex" -> <<"celexa", "cerebyx">>
    [] key = "celexa" -> <<"celebrex", "cerebyx">>
    [] key = "cerebyx" -> <<"celebrex", "celexa">>
    [] key = "tramadol" -> <<"trazodone">>
    [] OTHER -> <<"tramadol">>

\* The medication-specific branch (an else-if chain): the numbers of
\* commonErrors, nearMisses and preventionStrategies entries it pushes.
SpecificErrorGuidance(lower) ==
  IF Includes(lower, "insulin") THEN [errors |-> 2, misses |-> 1, strategies |-> 2]
  ELSE IF IncludesAny(lower, {"warfarin", "coumadin"}) THEN [errors |-> 2, misses |-> 1, strategies |-> 2]
  ELSE IF Includes(lower, "digoxin") THEN [errors |-> 2, misses |-> 1, strategies |-> 2]
  ELSE IF IncludesAny(lower, {"antibiotic", "penicillin", "cephalosporin", "azithromycin",
                              "ciprofloxacin", "amoxicillin"})
    THEN [errors |-> 2, misses |-> 1, strategies |-> 2]
  ELSE IF IncludesAny(lower, {"lisinopril", "enalapril", "captopril", "ace inhibitor"})
    THEN [errors |-> 1, misses |-> 1, strategies |-> 1]
  ELSE IF Includes(lower, "metformin") THEN [errors |-> 2, misses |-> 1, strategies |-> 2]
  ELSE [errors |-> 0, misses |-> 0, strategies |-> 0]

\* Variant: a look-alike match sets medium whatever the level was.
RiskTierLasaLast(highAlert, hits) ==
  IF hits # {} THEN "medium" ELSE IF highAlert THEN "high" ELSE "low"
\* riskLevel after the high-alert test and the look-alike loop.
RiskTier(highAlert, hits) ==
  IF highAlert THEN "high" ELSE IF hits # {} THEN "medium" ELSE "low"

\* Variant: no generic entries for an empty list.
WithoutDefault(n, d) == n
\* if (list.length === 0) list.push(d generic entries)
WithDefault(n, d) == IF n = 0 THEN d ELSE n

\* The record pushed by the catch block of the loop body.
MedicationErrorRiskCaught(med) ==
  [medicationName |-> med.name, commonErrors |-> 1, nearMisses |-> 1,
   preventionStrategies |-> 2, highAlertStatus |-> FALSE, lookAlikeSoundAlike |-> <<>>,
   riskLevel |-> "medium"]

\* One record of analyzeMedicationErrorRisks.  The three guidance lists are
\* canned strings: the record holds their lengths.  medication.name.toLowerCase()
\* throws for a medication without a name, inside the loop's try block.
MedicationErrorRisk(med) ==
  IF med.name = UNDEFINED THEN MedicationErrorRiskCaught(med) ELSE
  LET lower == ToLowerCase(med.name)
      highAlert == IncludesAny(lower, HighAlertMeds)
      hits == {k \in 1..Len(LasaKeys) : Includes(lower, LasaKeys[k])}
      lasa == Concat([k \in 1..Len(LasaKeys) |->
                        IF k \in hits THEN LasaPairs(LasaKeys[k]) ELSE <<>>])
      g == SpecificErrorGuidance(lower)
      errors == (IF highAlert THEN 1 ELSE 0) + g.errors
      misses == Cardinality(hits) + g.misses
      strategies == (IF highAlert THEN 2 ELSE 0) + Cardinality(hits) + g.strategies
      commonErrors == WithDefault(errors, 2)
      level1 == RiskTier(highAlert, hits)
  IN [medicationName |-> med.name,
      commonErrors |-> commonErrors,
      nearMisses |-> WithDefault(misses, 2),
      preventionStrategies |-> WithDefault(strategies, 3),
      highAlertStatus |-> highAlert,
      lookAlikeSoundAlike |-> lasa,
      riskLevel |-> IF level1 = "low" /\ (commonErrors > 3 \/ lasa # <<>>)
                      THEN "medium" ELSE level1]

GeneralMedicationSafety ==
  [medicationName |-> "General Medication Safety", commonErrors |-> 5, nearMisses |-> 4,
   preventionStrategies |-> 4, highAlertStatus |-> FALSE, lookAlikeSoundAlike |-> <<>>,
   riskLevel |-> "medium"]

analyzeMedicationErrorRisks(meds) ==
  IF Len(meds) = 0 THEN Ok(JsArray(<<GeneralMedicationSafety>>))
  ELSE Ok(JsArray([m \in 1..Len(meds) |-> MedicationErrorRisk(meds[m])]))

\* ---------------------------------------------------------- analyzeHAIRisks
HaiSymptomKeywords ==
  {"fever", "chills", "fatigue", "pain", "cough", "sputum", "shortness of breath",
   "diarrhea", "nausea", "redness", "swelling", "drainage", "burning", "urgency",
   "blood in urine", "wound", "rash", "headache", "stiff neck"}
HaiDiagnosisKeywords ==
  {"infection", "pneumonia", "sepsis", "uti", "urinary tract", "clostridium", "c. diff",
   "c.diff", "mrsa", "staph", "line infection", "catheter", "surgical site",
   "surgical wound", "post-operative", "postoperative", "wound infection"}

\* The six infection patterns, in the order the code tests them.  symGroups:
\* for each set, some symptom name must contain one of its keywords.
HaiPatterns ==
  << [haiType |-> "CLABSI", symGroups |-> {{"fever"}, {"chills"}},
      diagKws |-> {"catheter", "central line"}, orRecent |-> FALSE,
      symFilter |-> {"fever", "chills", "fatigue", "pain"},
      diagFilter |-> {"catheter", "line", "bloodstream", "infection"}],
     [haiType |-> "CAUTI", symGroups |-> {{"urinary", "urine", "burning"}},
      diagKws |-> {"catheter"}, orRecent |-> TRUE,
      symFilter |-> {"burn", "urgency", "frequency", "urinary", "urine", "pain"},
      diagFilter |-> {"urinary", "uti", "catheter"}],
     [haiType |-> "SSI", symGroups |-> {{"wound", "incision", "drainage"}},
      diagKws |-> {"surgery", "surgical", "operation", "post-op"}, orRecent |-> FALSE,
      symFilter |-> {"wound", "drain", "redness", "swelling", "pain", "fever"},
      diagFilter |-> {"surgery", "surgical", "wound", "incision", "post"}],
     [haiType |-> "VAP", symGroups |-> {{"cough", "pneumonia", "breath"}},
      diagKws |-> {"ventilator", "intubation"}, orRecent |-> FALSE,
      symFilter |-> {"cough", "sputum", "breath", "fever"},
      diagFilter |-> {"pneumonia", "ventilator", "respiratory", "intubation"}],
     [haiType |-> "C. diff", symGroups |-> {{"diarrhea"}},
      diagKws |-> {"antibiotic"}, orRecent |-> TRUE,
      symFilter |-> {"diarrhea", "stool", "abdominal", "fever"},
      diagFilter |-> {"c. diff", "c.diff", "clostridium", "antibiotic", "colitis"}],
     [haiType |-> "MRSA", symGroups |-> {{"skin", "rash", "abscess"}},
      diagKws |-> {"staph"}, orRecent |-> TRUE,
      symFilter |-> {"skin", "rash", "abscess", "boil", "redness", "swelling", "drainage"},
      diagFilter |-> {"staph", "mrsa", "skin infection"}] >>

NamesMatching(xs, kws) ==
  LET hit == SelectSeq(xs, LAMBDA x : IncludesAny(ToLowerCase(x.name), kws))
  IN [i \in 1..Len(hit) |-> hit[i].name]
SomeMatches(xs, kws) == \E i \in 1..Len(xs) : IncludesAny(ToLowerCase(xs[i].name), kws)

HaiPatternApplies(p, ss, ds, recentHospitalization) ==
  /\ \A g \in p.symGroups : SomeMatches(ss, g)
  /\ (SomeMatches(ds, p.diagKws) \/ (p.orRecent /\ recentHospitalization))

\* Variant: no general guidance when nothing was identified.
HaiRisksAsFound(risks, recentHospitalization) == risks
\* The closing statements: the general-guidance record for an empty list when
\* not recently hospitalized, the list otherwise.
HaiRisksOrPrevention(risks, recentHospitalization) ==
  IF risks = <<>> /\ ~recentHospitalization
    THEN <<[haiType |-> "HAI Prevention", riskLevel |-> "low",
            matchedSymptoms |-> <<>>, matchedDiagnoses |-> <<>>]>>
    ELSE risks

analyzeHAIRisks(ss, ds, recentHospitalization) ==
  IF ~AllNamed(ss) \/ ~AllNamed(ds) THEN Thrown(TypeErrorToLowerCase)
  ELSE
    LET matchedS == SelectSeq(ss, LAMBDA x : IncludesAny(ToLowerCase(x.name), HaiSymptomKeywords))
        matchedD == SelectSeq(ds, LAMBDA x : IncludesAny(ToLowerCase(x.name), HaiDiagnosisKeywords))
        any == Len(matchedS) > 0 \/ Len(matchedD) > 0 \/ recentHospitalization
        specific ==
          IF ~any THEN <<>>
          ELSE Concat([k \in 1..Len(HaiPatterns) |->
                 IF HaiPatternApplies(HaiPatterns[k], ss, ds, recentHospitalization)
                   THEN <<[haiType |-> HaiPatterns[k].haiType,
                           riskLevel |-> IF recentHospitalization THEN "high" ELSE "medium",
                           matchedSymptoms |-> NamesMatching(matchedS, HaiPatterns[k].symFilter),
                           matchedDiagnoses |-> NamesMatching(matchedD, HaiPatterns[k].diagFilter)]>>
                   ELSE <<>>])
        risks ==
          IF specific = <<>> /\ any
            THEN <<[haiType |-> "General HAI Concern",
                    riskLevel |-> IF recentHospitalization THEN "medium" ELSE "low",
                    matchedSymptoms |-> [i \in 1..Len(matchedS) |-> matchedS[i].name],
                    matchedDiagnoses |-> [i \in 1..Len(matchedD) |-> matchedD[i].name]]>>
            ELSE specific
    IN Ok(JsArray(HaiRisksOrPrevention(risks, recentHospitalization)))

\* ------------------------------------------ getComprehensiveSafetyAnalysis
NoReport == [status |-> "<none>"]
NoLocals == [set |-> FALSE]

Increment(k) == [calls EXCEPT ![k] = @ + 1]

\* try { haiRisks = analyzeHAIRisks(symptoms, diagnoses, false) || [] } catch { haiRisks = [] }
HaiRisksOrEmpty ==
  IF analyzeHAIRisks(symptoms, diagnoses, FALSE).threw THEN JsArray(<<>>)
  ELSE analyzeHAIRisks(symptoms, diagnoses, FALSE).v

HaiFallback == IF analyzeHAIRisks(symptoms, diagnoses, FALSE).threw THEN {"hai"} ELSE {}

\* The object literal of the normal return.
NormalReport(sym, dia, de, medEffects, medErrorRisks) ==
  [symptomSafetyData |-> sym, diagnosisSafetyData |-> dia, diagnosticErrorRisk |-> de,
   medicationEffects |-> medEffects, medicationErrorRisks |-> medErrorRisks,
   haiRisks |-> HaiRisksOrEmpty, status |-> "success", error |-> UNDEFINED]

\* The object literal of the catch block, once its two map calls have returned.
CatchReport(msg) ==
  [symptomSafetyData |-> MockSymptoms(symptoms).v,
   diagnosisSafetyData |-> MockDiagnoses(diagnoses).v,
   diagnosticErrorRisk |-> DiagnosticErrorFallback("due to an error"),
   medicationEffects |-> EmptyMedicationEffects, medicationErrorRisks |-> JsArray(<<>>),
   haiRisks |-> JsArray(<<>>), status |-> "partial", error |-> msg]

\* The top-level catch: it evaluates the two mock maps again, outside any try,
\* so an exception of theirs leaves the async function as a rejection.
Catch(msg) ==
  /\ caught' = msg
  /\ pc' = "done"
  /\ IF MockSymptoms(symptoms).threw
       THEN outcome' = "rejected" /\ rejection' = MockSymptoms(symptoms).msg /\ report' = report
       ELSE IF MockDiagnoses(diagnoses).threw
         THEN outcome' = "rejected" /\ rejection' = MockDiagnoses(diagnoses).msg
              /\ report' = report
         ELSE outcome' = "returned" /\ report' = CatchReport(msg) /\ rejection' = rejection

Return(rep) ==
  /\ pc' = "done"
  /\ outcome' = "returned"
  /\ report' = rep
  /\ UNCHANGED <<caught, rejection>>

\* What invoking analysis k through safeApiCall yields before the first await.
\* evaluateDiagnosticErrorRisk receives the one array [symptoms, diagnoses] as
\* its first argument and nothing as its second.
Invoke(k) ==
  CASE k = "symptom" -> analyzeEntry(symptoms)
    [] k = "diagnosis" -> analyzeEntry(diagnoses)
    [] OTHER -> evaluateDiagnosticErrorRiskEntry(JsArray(<<symptoms, diagnoses>>), JsUndefined)

\* From the call to the await of Promise.allSettled.
Begin ==
  /\ pc = "start"
  /\ IF medications.t = "null"
       THEN \* the first log line reads medications.length
            /\ Catch(TypeErrorLengthOfNull)
            /\ UNCHANGED <<safe, inner, calls, extIssued>>
       ELSE /\ pc' = "await"
            /\ safe' = [k \in Analyses |->
                          IF Invoke(k).threw THEN JsNull ELSE Invoke(k).v]
            /\ inner' = [k \in Analyses |->
                           IF ~Invoke(k).threw /\ Invoke(k).v = Pending
                             THEN "running" ELSE "settled"]
            /\ calls' = [k \in SubAnalyses |-> IF k \in Analyses THEN calls[k] + 1 ELSE calls[k]]
            /\ extIssued' = \E k \in Analyses : ~Invoke(k).threw /\ Invoke(k).v = Pending
            /\ UNCHANGED <<caught, report, outcome, rejection>>
  /\ UNCHANGED <<symptoms, diagnoses, medications, locals, fallbacks, extOk, interactionVars, rerun, applied, storeVars, serviceVars>>

\* The result of analysis k when all its requests have been answered as outs says.
Completed(k, outs) ==
  CASE k = "symptom" -> analyzeSymptomSafety(symptoms, outs)
    [] k = "diagnosis" -> analyzeDiagnosisSafety(diagnoses, outs)
    [] OTHER -> evaluateDiagnosticErrorRisk(symptoms, diagnoses, outs[1])

RequestsOf(k) ==
  CASE k = "symptom" -> NamedPrefixLen(symptoms, 1)
    [] k = "diagnosis" -> NamedPrefixLen(diagnoses, 1)
    [] OTHER -> 1

\* Analysis k settles before its timer fires: safeApiCall resolves with the
\* analysis' value, or with null if the analysis threw.
AnalysisResponds(k) ==
  /\ pc = "await"
  /\ inner[k] = "running"
  /\ safe[k] = Pending
  /\ \E outs \in [1..RequestsOf(k) -> ExtOutcomes] :
       /\ safe' = [safe EXCEPT ![k] = IF Completed(k, outs).threw THEN JsNull
                                      ELSE Completed(k, outs).v]
       /\ extOk' = (extOk \/ \E r \in 1..RequestsOf(k) : outs[r] # "fail")
  /\ inner' = [inner EXCEPT ![k] = "settled"]
  /\ UNCHANGED <<symptoms, diagnoses, medications, pc, locals, caught, report, outcome,
                 rejection, calls, fallbacks, extIssued, interactionVars, rerun, applied, storeVars, serviceVars>>

\* Variant: a timed-out analysis is invoked again.
TimeoutRetries(k) ==
  /\ pc = "await"
  /\ inner[k] = "running"
  /\ safe[k] = Pending
  /\ calls[k] < 3
  /\ calls' = Increment(k)
  /\ UNCHANGED <<symptoms, diagnoses, medications, pc, safe, inner, locals, caught, report,
                 outcome, rejection, fallbacks, extIssued, extOk, interactionVars, rerun, applied, storeVars, serviceVars>>

\* The timer of safeApiCall fires first: the race rejects, safeApiCall
\* resolves with null.  The analysis itself keeps running.
Timeout(k) ==
  /\ pc = "await"
  /\ inner[k] = "running"
  /\ safe[k] = Pending
  /\ safe' = [safe EXCEPT ![k] = JsNull]
  /\ UNCHANGED <<symptoms, diagnoses, medications, pc, inner, locals, caught, report,
                 outcome, rejection, calls, fallbacks, extIssued, extOk, interactionVars, rerun, applied, storeVars, serviceVars>>

\* Variant: what the analysis settles with replaces what the race settled with.
LateValueWins(settledWith, late) == late
\* Promise.race settled with the timer's rejection: what the analysis
\* settles with afterwards is dropped.
RaceSettled(settledWith, late) == settledWith

\* An analysis that lost the race settles later; nothing reads its result.
LateCompletion(k) ==
  /\ inner[k] = "running"
  /\ safe[k] # Pending
  /\ \E outs \in [1..RequestsOf(k) -> ExtOutcomes] :
       safe' = [safe EXCEPT ![k] = RaceSettled(@, IF Completed(k, outs).threw THEN JsNull
                                                  ELSE Completed(k, outs).v)]
  /\ inner' = [inner EXCEPT ![k] = "settled"]
  /\ UNCHANGED <<symptoms, diagnoses, medications, pc, locals, caught, report,
                 outcome, rejection, calls, fallbacks, extIssued, extOk, interactionVars, rerun, applied, storeVars, serviceVars>>

\* value ? value : fallback, for the two list analyses
ExtractedSymptoms ==
  IF Truthy(safe["symptom"]) THEN Ok(safe["symptom"]) ELSE MockSymptoms(symptoms)
\* Variant: the settled value is used as it is, null included.
ExtractedDiagnosesUnchecked == Ok(safe["diagnosis"])
ExtractedDiagnoses ==
  IF Truthy(safe["diagnosis"]) THEN Ok(safe["diagnosis"]) ELSE MockDiagnoses(diagnoses)
ExtractedDiagnosticErrorRisk ==
  IF Truthy(safe["diagnosticError"]) THEN safe["diagnosticError"]
  ELSE DiagnosticErrorFallback("without connectivity")

\* Promise.allSettled has resolved: from the extraction of the three values
\* to the await of analyzeMedicationEffects, or to the return when the
\* medication list is empty.
Extract ==
  /\ pc = "await"
  /\ \A k \in Analyses : safe[k] # Pending
  /\ fallbacks' = {k \in Analyses : ~Truthy(safe[k])}
                    \cup (IF ~ExtractedSymptoms.threw /\ ~ExtractedDiagnoses.threw
                             /\ Len(medications.v) = 0
                          THEN HaiFallback ELSE {})
  /\ IF ExtractedSymptoms.threw
       THEN Catch(ExtractedSymptoms.msg) /\ UNCHANGED <<locals, calls, extIssued>>
     ELSE IF ExtractedDiagnoses.threw
       THEN Catch(ExtractedDiagnoses.msg) /\ UNCHANGED <<locals, calls, extIssued>>
     ELSE IF Len(medications.v) > 0
       THEN /\ pc' = "medEffects"
            /\ locals' = [set |-> TRUE,
                          extractedSymptomSafetyData |-> ExtractedSymptoms.v,
                          extractedDiagnosisSafetyData |-> ExtractedDiagnoses.v,
                          extractedDiagnosticErrorRisk |-> ExtractedDiagnosticErrorRisk]
            /\ calls' = Increment("medicationEffects")
            /\ extIssued' = TRUE
            /\ UNCHANGED <<caught, report, outcome, rejection>>
       ELSE /\ Return(NormalReport(ExtractedSymptoms.v, ExtractedDiagnoses.v,
                                   ExtractedDiagnosticErrorRisk,
                                   EmptyMedicationEffects, JsArray(<<>>)))
            /\ calls' = Increment("hai")
            /\ UNCHANGED <<locals, extIssued>>
  /\ UNCHANGED <<symptoms, diagnoses, medications, safe, inner, extOk, interactionVars, rerun, applied, storeVars, serviceVars>>

\* analyzeMedicationEffects settles: the rest of the try block runs to the return.
MedEffectsResponds ==
  /\ pc = "medEffects"
  /\ \E outs \in [1..Len(medications.v) -> MedOutcomes] :
       LET r == analyzeMedicationEffects(medications.v, symptoms, diagnoses, outs)
       IN /\ Return(NormalReport(locals.extractedSymptomSafetyData,
                                 locals.extractedDiagnosisSafetyData,
                                 locals.extractedDiagnosticErrorRisk,
                                 IF r.threw THEN EmptyMedicationEffects ELSE r.v,
                                 analyzeMedicationErrorRisks(medications.v).v))
          /\ fallbacks' = fallbacks \cup HaiFallback
                                     \cup (IF r.threw THEN {"medicationEffects"} ELSE {})
          /\ extOk' = (extOk \/ \E m \in 1..Len(medications.v) : outs[m] # "fail")
  /\ calls' = [calls EXCEPT !["medicationErrors"] = @ + 1, !["hai"] = @ + 1]
  /\ UNCHANGED <<symptoms, diagnoses, medications, safe, inner, locals, extIssued,
                 interactionVars, rerun, applied, storeVars, serviceVars>>

\* The arguments: any lists of the universes; medications may also be null,
\* which the default parameter value (= []) does not replace.
InitAnalysis ==
  /\ symptoms \in SeqsUpTo(SymptomUniverse, MaxSymptoms)
  /\ diagnoses \in SeqsUpTo(DiagnosisUniverse, MaxDiagnoses)
  /\ medications \in {JsNull} \cup {JsArray(m) : m \in SeqsUpTo(MedicationUniverse, MaxMedications)}
  /\ pc = "start"
  /\ safe = [k \in Analyses |-> Pending]
  /\ inner = [k \in Analyses |-> "idle"]
  /\ locals = NoLocals
  /\ caught = UNDEFINED
  /\ report = NoReport
  /\ outcome = "running"
  /\ rejection = UNDEFINED
  /\ calls = [k \in SubAnalyses |-> 0]
  /\ fallbacks = {}
  /\ extIssued = FALSE
  /\ extOk = FALSE

\* No run of the orchestrator in this behaviour.
IdleAnalysis ==
  /\ symptoms = <<>>
  /\ diagnoses = <<>>
  /\ medications = JsArray(<<>>)
  /\ pc = "idle"
  /\ safe = [k \in Analyses |-> Pending]
  /\ inner = [k \in Analyses |-> "idle"]
  /\ locals = NoLocals
  /\ caught = UNDEFINED
  /\ report = NoReport
  /\ outcome = "running"
  /\ rejection = UNDEFINED
  /\ calls = [k \in SubAnalyses |-> 0]
  /\ fallbacks = {}
  /\ extIssued = FALSE
  /\ extOk = FALSE

\* ------------------------------------------------ checkMedicationInteractions
\* (the five-strategy version of the FDA service)
MedNameUniverse == {"Warfarin", "Ibuprofen", "", " "}

\* String.prototype.trim on the names of MedNameUniverse.
Trim(name) == IF name = " " THEN "" ELSE name
\* Variant: the test without trim().
BlankWithoutTrim(name) == name = ""
\* !drug || drug.trim() === ""
Blank(name) == name = "" \/ Trim(name) = ""

\* Variant: the inner loop starts at j = i.
LoopPairsFromSelf(n) ==
  Concat([a \in 1..n |-> [b \in 1..(n - a + 1) |-> [i |-> a, j |-> a + b - 1]]])
\* The index pairs the two for loops visit, in order (1-based):
\* for i = 1..n, for j = i+1..n.
LoopPairs(n) ==
  Concat([a \in 1..n |-> [b \in 1..(n - a) |-> [i |-> a, j |-> a + b]]])

SkipsPair(names, p) == Blank(names[p.i]) \/ Blank(names[p.j])

\* The position in LoopPairs, from k on, of the first pair the loop body does
\* not skip; one past the end if there is none.
RECURSIVE FirstUnskipped(_, _)
FirstUnskipped(names, k) ==
  IF k > Len(LoopPairs(Len(names))) THEN k
  ELSE IF SkipsPair(names, LoopPairs(Len(names))[k]) THEN FirstUnskipped(names, k + 1)
  ELSE k

\* ---- the texts of a label: determineSeverity, extractDirectFromFdaText
\* Interaction descriptions: the joined drug_interactions texts of a label.
DescriptionUniverse ==
  {"", "   ", "No known interaction.", "Contraindicated: monitor INR.",
   "AVOID; use caution.", "May increase bleeding.", "Risk of hemorrhage; adjust dose.",
   "Dangerous.", "Potential effect.", "Not Recommended.", "Boxed WARNING: fatal.",
   "May affect levels; modify dose.", "Increased severe risk; decrease dose."}

\* Variant: the moderate terms are tested first.
determineSeverityModerateFirst(description) ==
  LET lowercaseDesc == ToLowerCase(description)
  IN IF IncludesAny(lowercaseDesc, {"caution", "monitor", "adjust", "modify", "increase",
                                    "decrease", "may affect", "potential"})
       THEN "moderate"
     ELSE IF IncludesAny(lowercaseDesc, {"contraindicated", "avoid", "not recommended",
                                         "severe", "serious", "life-threatening", "fatal",
                                         "death", "warning"})
       THEN "major"
     ELSE "minor"
\* determineSeverity of the five-strategy FDA service
determineSeverity(description) ==
  LET lowercaseDesc == ToLowerCase(description)
  IN IF \/ Includes(lowercaseDesc, "contraindicated")
        \/ Includes(lowercaseDesc, "avoid")
        \/ Includes(lowercaseDesc, "not recommended")
        \/ Includes(lowercaseDesc, "severe")
        \/ Includes(lowercaseDesc, "serious")
        \/ Includes(lowercaseDesc, "life-threatening")
        \/ Includes(lowercaseDesc, "fatal")
        \/ Includes(lowercaseDesc, "death")
        \/ Includes(lowercaseDesc, "warning")
       THEN "major"
     ELSE IF \/ Includes(lowercaseDesc, "caution")
             \/ Includes(lowercaseDesc, "monitor")
             \/ Includes(lowercaseDesc, "adjust")
             \/ Includes(lowercaseDesc, "modify")
             \/ Includes(lowercaseDesc, "increase")
             \/ Includes(lowercaseDesc, "decrease")
             \/ Includes(lowercaseDesc, "may affect")
             \/ Includes(lowercaseDesc, "potential")
       THEN "moderate"
     ELSE "minor"

\* determineSeverity of services/FdaService.ts
determineSeverityFdaService(description) ==
  LET lowercaseDesc == ToLowerCase(description)
  IN IF \/ Includes(lowercaseDesc, "fatal")
        \/ Includes(lowercaseDesc, "severe")
        \/ Includes(lowercaseDesc, "dangerous")
        \/ Includes(lowercaseDesc, "life-threatening")
        \/ Includes(lowercaseDesc, "contraindicated")
        \/ Includes(lowercaseDesc, "serious")
        \/ Includes(lowercaseDesc, "death")
        \/ Includes(lowercaseDesc, "hemorrhage")
       THEN "major"
     ELSE IF \/ Includes(lowercaseDesc, "caution")
             \/ Includes(lowercaseDesc, "monitor")
             \/ Includes(lowercaseDesc, "adjust")
             \/ Includes(lowercaseDesc, "may increase")
             \/ Includes(lowercaseDesc, "may decrease")
             \/ Includes(lowercaseDesc, "bleeding")
       THEN "moderate"
     ELSE "minor"

\* ---- extractDirectFromFdaText and its helpers.  A description is given by
\* its pieces: what text.split(/[.!?][\s\n]+/) returns.
SentenceUniverse ==
  {"Concurrent use may cause serious bleeding", "Patients should avoid concurrent use",
   "Store at controlled room temperature", "Avoid use",
   "Ibuprofen increases the risk of bleeding with warfarin",
   "Avoid concurrent use of these drugs"}

\* The text of a drug_interactions section that mentions both Warfarin and
\* Ibuprofen, and the text of one that mentions no medication.
LabelTextMentioning ==
  "Ibuprofen increases the risk of bleeding with warfarin. Avoid concurrent use of these drugs"
LabelTextPlain == "Store at controlled room temperature"
\* The piece that two joined mentioning texts share.
JoinedPiece ==
  "Avoid concurrent use of these drugs Ibuprofen increases the risk of bleeding with warfarin"
PieceUniverse == SentenceUniverse \cup {JoinedPiece}

\* description.split(/[.!?][\s\n]+/) on the descriptions a record can carry.
Pieces(description) ==
  CASE description = LabelTextMentioning
         -> <<"Ibuprofen increases the risk of bleeding with warfarin",
              "Avoid concurrent use of these drugs">>
    [] description = LabelTextMentioning \o " " \o LabelTextMentioning
         -> <<"Ibuprofen increases the risk of bleeding with warfarin", JoinedPiece,
              "Avoid concurrent use of these drugs">>
    [] OTHER -> <<description>>

\* s.trim().length and s.trim().split(" ").length on the pieces above.
TrimmedLength(piece) ==
  CASE piece = "Concurrent use may cause serious bleeding" -> 41
    [] piece = "Patients should avoid concurrent use" -> 36
    [] piece = "Store at controlled room temperature" -> 36
    [] piece = "Avoid use" -> 9
    [] piece = "Ibuprofen increases the risk of bleeding with warfarin" -> 54
    [] piece = "Avoid concurrent use of these drugs" -> 35
    [] piece = "Avoid concurrent use of these drugs Ibuprofen increases the risk of bleeding with warfarin" -> 90
    [] OTHER -> 0
WordCount(piece) ==
  CASE piece = "Concurrent use may cause serious bleeding" -> 6
    [] piece = "Patients should avoid concurrent use" -> 5
    [] piece = "Store at controlled room temperature" -> 5
    [] piece = "Avoid use" -> 2
    [] piece = "Ibuprofen increases the risk of bleeding with warfarin" -> 8
    [] piece = "Avoid concurrent use of these drugs" -> 6
    [] piece = "Avoid concurrent use of these drugs Ibuprofen increases the risk of bleeding with warfarin" -> 14
    [] OTHER -> 1

\* Variant: the whole list.
SliceAll(xs, n) == xs
\* xs.slice(0, n)
Slice(xs, n) == SubSeq(xs, 1, IF Len(xs) < n THEN Len(xs) ELSE n)

\* trim, capitalise the first letter, end with a full stop (the pieces
\* above start with a capital and carry no full stop).
Tidy(piece) == piece \o "."
TidyAll(ps) == [i \in 1..Len(ps) |-> Tidy(ps[i])]

extractSentences(pieces, maxSentences) ==
  TidyAll(Slice(SelectSeq(pieces, LAMBDA p : TrimmedLength(p) > 10 /\ WordCount(p) > 3),
                maxSentences))

extractRecommendations(pieces) ==
  Slice(TidyAll(SelectSeq(pieces, LAMBDA p :
                  /\ TrimmedLength(p) > 0
                  /\ IncludesAny(ToLowerCase(p), {"recommend", "should", "must", "advised",
                                                  "advised to", "monitor", "avoid"}))),
        4)

\* The canned advice lists have four entries each; an entry is named by its
\* severity and position.
getDefaultRecommendations(severity) ==
  [i \in 1..4 |-> "advice for " \o severity \o " interactions, " \o <<"1", "2", "3", "4">>[i]]

\* The sentence of a tidied sentence, for the keyword tests (tidying changes
\* neither the lower-cased words nor their order).
Untidy(sentence) == CHOOSE p \in PieceUniverse : Tidy(p) = sentence

extractDirectFromFdaText(drug1, drug2, severity, pieces) ==
  LET sentences == extractSentences(pieces, 10)
      relevantSentences ==
        SelectSeq(sentences, LAMBDA x :
          IncludesAny(ToLowerCase(Untidy(x)),
                      {ToLowerCase(drug1), ToLowerCase(drug2), "interact", "effect", "risk",
                       "may", "can", "should"}))
      effectSentences ==
        SelectSeq(sentences, LAMBDA x :
          /\ IncludesAny(ToLowerCase(Untidy(x)),
                         {"cause", "result", "lead to", "effect", "increas", "risk", "toxicity"})
          /\ ~IncludesAny(ToLowerCase(Untidy(x)), {"should", "monitor", "avoid"}))
      recommendationSentences == extractRecommendations(pieces)
      possibleEffects ==
        IF Len(effectSentences) > 0 THEN Slice(effectSentences, 4)
        ELSE Slice(relevantSentences, 4)
  IN [simplifiedExplanation |->
        IF Len(relevantSentences) > 0 THEN relevantSentences[1]
        ELSE IF severity = "major" THEN "serious interaction between " \o drug1 \o " and " \o drug2
        ELSE IF severity = "moderate" THEN drug1 \o " and " \o drug2 \o " may interact"
        ELSE "potential minor interactions between " \o drug1 \o " and " \o drug2,
      possibleEffects |->
        IF Len(possibleEffects) > 0 THEN possibleEffects
        ELSE <<"See full FDA text for " \o drug1 \o " and " \o drug2>>,
      recommendations |->
        IF Len(recommendationSentences) > 0 THEN recommendationSentences
        ELSE getDefaultRecommendations(severity)]

\* One element of response.data.results: whether it has a drug_interactions
\* section, and whether that section's text mentions drug2.
ResultKinds ==
  {[di |-> FALSE, mentions |-> FALSE], [di |-> TRUE, mentions |-> FALSE],
   [di |-> TRUE, mentions |-> TRUE]}

\* How a request can end: rejected (network error, HTTP error, or the 8 s
\* timeout of fdaClient), or answered with a list of results: at most one
\* for strategies 1-4 (limit=1), at most MaxResults for strategy 5.
Answers(k) ==
  {[threw |-> TRUE, results |-> <<>>]}
    \cup {[threw |-> FALSE, results |-> rs] :
            rs \in SeqsUpTo(ResultKinds, IF k < 5 THEN 1 ELSE MaxResults)}

\* Variant: any result counts, with or without a drug_interactions section.
HasResultsAnyResult(k, ans) == ~ans.threw /\ Len(ans.results) > 0
\* hasResults after strategy k's try block.
HasResults(k, ans) ==
  /\ ~ans.threw
  /\ IF k < 5
       THEN Len(ans.results) > 0 /\ ans.results[1].di
       ELSE \E r \in 1..Len(ans.results) : ans.results[r].di /\ ans.results[r].mentions

\* Variant: the guard without hasResults.
RecordGuardWithoutHasResults(has, resp) ==
  resp.t = "array" /\ Len(resp.v) > 0 /\ resp.v[1].di
\* The guard of the record-building block.
RecordGuard(has, resp) ==
  has /\ resp.t = "array" /\ Len(resp.v) > 0 /\ resp.v[1].di

InteractionSource(k, drug1, drug2) ==
  CASE k = 1 -> drug1 \o " label mentions " \o drug2
    [] k = 2 -> drug2 \o " label mentions " \o drug1
    [] k = 3 -> drug1 \o " generic label mentions " \o drug2
    [] k = 4 -> drug2 \o " generic label mentions " \o drug1
    [] OTHER -> "Broad search"

\* The drug_interactions text of a result that has the section (one text per
\* section).
TextOf(r) == IF r.mentions THEN LabelTextMentioning ELSE LabelTextPlain

\* texts.join(" ")
RECURSIVE Join(_)
Join(texts) ==
  IF Len(texts) = 0 THEN ""
  ELSE IF Len(texts) = 1 THEN texts[1]
  ELSE texts[1] \o " " \o Join(Tail(texts))

\* The texts kept as relevant: those that mention both medications, or one of
\* them when the two names differ.
RelevantTexts(drug1, drug2, results) ==
  LET sections == SelectSeq(results, LAMBDA r : r.di)
      texts == [i \in 1..Len(sections) |-> TextOf(sections[i])]
      d1 == ToLowerCase(drug1)
      d2 == ToLowerCase(drug2)
  IN SelectSeq(texts, LAMBDA t :
       \/ Includes(ToLowerCase(t), d1) /\ Includes(ToLowerCase(t), d2)
       \/ Includes(ToLowerCase(t), d1) /\ d1 # d2
       \/ Includes(ToLowerCase(t), d2) /\ d1 # d2)

\* The description of the record: the relevant texts joined, or the first
\* result's text when none is relevant.
Description(drug1, drug2, results) ==
  IF Len(RelevantTexts(drug1, drug2, results)) > 0
    THEN Join(RelevantTexts(drug1, drug2, results))
    ELSE TextOf(results[1])

\* The record pushed for a pair, from the results of the response that hit.
InteractionRecord(k, drug1, drug2, results) ==
  LET description == Description(drug1, drug2, results)
      severity == determineSeverity(description)
      extracted == extractDirectFromFdaText(drug1, drug2, severity, Pieces(description))
  IN [drug1 |-> drug1, drug2 |-> drug2,
      severity |-> severity,
      description |-> description,
      simplifiedExplanation |-> extracted.simplifiedExplanation,
      possibleEffects |-> extracted.possibleEffects,
      recommendations |-> extracted.recommendations,
      source |-> "Data from FDA API: " \o InteractionSource(k, drug1, drug2)]

\* Variant: the record is put in front of the list.
PushFront(list, rec) == <<rec>> \o list
\* interactions.push(rec)
Push(list, rec) == Append(list, rec)

\* The loops run on from the pair after those in cons (the history of pairs
\* reached): skipped pairs are passed over, and the function suspends at
\* strategy 1's request of the next pair, or returns.
Advance(cons) ==
  LET ps == LoopPairs(Len(medNames))
      k == FirstUnskipped(medNames, Len(cons) + 1)
      last == IF k > Len(ps) THEN Len(ps) ELSE k
  IN /\ considered' = cons \o [x \in 1..(last - Len(cons)) |->
                                 [i |-> ps[Len(cons) + x].i, j |-> ps[Len(cons) + x].j,
                                  status |-> IF Len(cons) + x < k THEN "skipped"
                                             ELSE "pending",
                                  hit |-> FALSE, recorded |-> FALSE]]
     /\ response' = JsNull
     /\ IF k > Len(ps)
          THEN /\ result' = "returned"
               /\ strategy' = 0
               /\ UNCHANGED <<pair, lookups>>
          ELSE /\ result' = "running"
               /\ strategy' = 1
               /\ pair' = ps[k]
               /\ lookups' = Append(lookups, <<ps[k].i, ps[k].j, 1>>)

\* From the call to the first await (or to the return).
CheckBeginStep ==
  /\ result = "start"
  /\ Advance(<<>>)
  /\ UNCHANGED <<medNames, interactions, analysisVars, applied, storeVars, serviceVars>>

CheckBegin == CheckBeginStep /\ UNCHANGED rerun

\* The request in flight ends with ans: from there to the next await (or to
\* the return).
StrategyStep(ans) ==
  /\ result = "running"
  /\ strategy \in 1..5
  /\ LET resp == IF ans.threw THEN response ELSE JsArray(ans.results)
           has == HasResults(strategy, ans)
           rec == RecordGuard(has, resp)
       IN IF ~has /\ strategy < 5
            THEN /\ strategy' = strategy + 1
                 /\ response' = resp
                 /\ lookups' = Append(lookups, <<pair.i, pair.j, strategy + 1>>)
                 /\ UNCHANGED <<pair, interactions, result, considered>>
            ELSE /\ interactions' =
                      IF rec THEN Push(interactions,
                                       InteractionRecord(strategy, medNames[pair.i],
                                                         medNames[pair.j], resp.v))
                      ELSE interactions
                 /\ Advance([considered EXCEPT ![Len(considered)] =
                               [@ EXCEPT !.status = "done", !.hit = has, !.recorded = rec]])
  /\ UNCHANGED <<medNames, analysisVars, applied, storeVars, serviceVars>>

\* Variant: what the run does is drawn anew, whatever the answer was.
StrategyRespondsHidden(ans) == \E other \in Answers(strategy) : StrategyStep(other)
StrategyRespondsWith(ans) == StrategyStep(ans)

StrategyResponds ==
  /\ \E ans \in Answers(strategy) : StrategyRespondsWith(ans)
  /\ UNCHANGED rerun

\* No second run.
NoRun == [pair |-> [i |-> 0, j |-> 0], strategy |-> 0, response |-> JsNull,
          interactions |-> <<>>, result |-> "idle"]

InitInteractions ==
  /\ medNames \in SeqsUpTo(MedNameUniverse, MaxMedNames)
  /\ pair = [i |-> 0, j |-> 0]
  /\ strategy = 0
  /\ response = JsNull
  /\ interactions = <<>>
  /\ result = "start"
  /\ considered = <<>>
  /\ lookups = <<>>
  /\ rerun = NoRun

\* No run of checkMedicationInteractions in this behaviour.
IdleInteractions ==
  /\ medNames = <<>>
  /\ pair = [i |-> 0, j |-> 0]
  /\ strategy = 0
  /\ response = JsNull
  /\ interactions = <<>>
  /\ result = "idle"
  /\ considered = <<>>
  /\ lookups = <<>>
  /\ rerun = NoRun

\* No function is called on its own in this behaviour.
NoCall == [fn |-> "none", done |-> FALSE]
IdleFunctions == applied = NoCall

\* useState<Patient | null>(null), and getItem for a key that was never set.
NoPatient == JsNull
NoItem == JsNull

\* No PatientContext and no run of the FdaService function in this behaviour.
IdlePatientContext ==
  /\ patient = NoPatient
  /\ stored = NoItem
  /\ loading = FALSE
  /\ error = JsNull
  /\ inflight = {}
  /\ settled = <<>>
  /\ started = 0

IdleFdaService ==
  /\ svcMedications = <<>>
  /\ svcPair = 0
  /\ svcAttempt = 0
  /\ svcInteractions = <<>>
  /\ svcResult = "idle"
  /\ svcRejection = UNDEFINED
  /\ svcLookups = <<>>
  /\ screenInteractions = <<>>
  /\ screenError = JsNull


NextAnalysis ==
  \/ Begin
  \/ \E k \in Analyses : AnalysisResponds(k)
  \/ \E k \in Analyses : Timeout(k)
  \/ \E k \in Analyses : LateCompletion(k)
  \/ Extract
  \/ MedEffectsResponds

NextInteractions ==
  \/ CheckBegin
  \/ StrategyResponds

\* ---- a second run of checkMedicationInteractions on the same list, as a
\* function of the run's locals and of the answer to the request in flight
PairIndex(n, p) == CHOOSE x \in 1..Len(LoopPairs(n)) : LoopPairs(n)[x] = p

\* The loops run on from position from of LoopPairs.
RunAdvance(run, names, from) ==
  LET ps == LoopPairs(Len(names))
      k == FirstUnskipped(names, from)
  IN IF k > Len(ps)
       THEN [run EXCEPT !.result = "returned", !.strategy = 0, !.response = JsNull]
       ELSE [run EXCEPT !.result = "running", !.strategy = 1, !.response = JsNull,
                        !.pair = ps[k]]

\* From the call to the first await (or to the return).
RunBegin(names) == RunAdvance([NoRun EXCEPT !.result = "start"], names, 1)

\* The request in flight ends with ans.
RunStep(run, names, ans) ==
  LET resp == IF ans.threw THEN run.response ELSE JsArray(ans.results)
      has == HasResults(run.strategy, ans)
      rec == RecordGuard(has, resp)
  IN IF ~has /\ run.strategy < 5
       THEN [run EXCEPT !.strategy = @ + 1, !.response = resp]
       ELSE RunAdvance([run EXCEPT !.interactions =
                          IF rec THEN Push(@, InteractionRecord(run.strategy,
                                                                names[run.pair.i],
                                                                names[run.pair.j], resp.v))
                          ELSE @],
                       names, PairIndex(Len(names), run.pair) + 1)

\* Both runs are called with the same list.
BothBegin == CheckBeginStep /\ rerun' = RunBegin(medNames)

\* Both runs' requests in flight end the same way.
BothRespond ==
  \E ans \in Answers(strategy) :
    /\ StrategyRespondsWith(ans)
    /\ rerun' = RunStep(rerun, medNames, ans)

NextTwoRuns ==
  \/ BothBegin
  \/ BothRespond

\* Two runs of checkMedicationInteractions whose lookups are answered alike.
InitTwoRuns ==
  /\ IdleAnalysis
  /\ InitInteractions
  /\ IdleFunctions
  /\ IdlePatientContext
  /\ IdleFdaService
SpecTwoRuns == InitTwoRuns /\ [][NextTwoRuns]_vars

\* ------------------------------------------- the functions called on their own
\* A call that has returned value.
Returned(call, value) ==
  [fn |-> call.fn, args |-> call.args, done |-> TRUE, value |-> value]
\* The calls of fn with the argument tuples of argSets, not yet made.
CallsOf(fn, argSets) == {[fn |-> fn, args |-> a, done |-> FALSE] : a \in argSets}

ApplyDetermineSeverity ==
  /\ applied.fn = "determineSeverity"
  /\ ~applied.done
  /\ applied' = Returned(applied, determineSeverity(applied.args[1]))
  /\ UNCHANGED <<analysisVars, interactionVars, rerun, storeVars, serviceVars>>

ApplyDetermineSeverityFdaService ==
  /\ applied.fn = "FdaService.determineSeverity"
  /\ ~applied.done
  /\ applied' = Returned(applied, determineSeverityFdaService(applied.args[1]))
  /\ UNCHANGED <<analysisVars, interactionVars, rerun, storeVars, serviceVars>>

\* Medications for analyzeMedicationErrorRisks: high-alert ones, look-alike
\* ones, one that is both, ones in neither table, and one without a name.
ErrorRiskMedicationUniverse ==
  { [id |-> "m1", name |-> "Ibuprofen", dosage |-> "200mg"],
    [id |-> "m2", name |-> "Insulin Glargine", dosage |-> "10u"],
    [id |-> "m3", name |-> "Warfarin", dosage |-> "5mg"],
    [id |-> "m4", name |-> "Lorazepam", dosage |-> "1mg"],
    [id |-> "m5", name |-> "Metoprolol", dosage |-> "50mg"],
    [id |-> "m6", name |-> "Celebrex", dosage |-> "100mg"],
    [id |-> "m7", name |-> "Metformin", dosage |-> "500mg"],
    [id |-> "m8", name |-> UNDEFINED, dosage |-> "1"] }

ApplyAnalyzeMedicationErrorRisks ==
  /\ applied.fn = "analyzeMedicationErrorRisks"
  /\ ~applied.done
  /\ applied' = Returned(applied, analyzeMedicationErrorRisks(applied.args[1]))
  /\ UNCHANGED <<analysisVars, interactionVars, rerun, storeVars, serviceVars>>

\* Symptoms and diagnoses for analyzeHAIRisks: names that hold keywords of
\* the infection patterns, of the two watch lists, of both, or of neither.
HaiSymptomUniverse ==
  { [id |-> "h1", name |-> "fever", severity |-> 5],
    [id |-> "h2", name |-> "chills", severity |-> 5],
    [id |-> "h3", name |-> "incision", severity |-> 5],
    [id |-> "h4", name |-> "diarrhea", severity |-> 5],
    [id |-> "h5", name |-> "rash", severity |-> 5],
    [id |-> "h6", name |-> "burning", severity |-> 5],
    [id |-> "h7", name |-> "breathlessness", severity |-> 5],
    [id |-> "h8", name |-> "itching", severity |-> 5] }
HaiDiagnosisUniverse ==
  { [id |-> "g1", name |-> "catheter"],
    [id |-> "g2", name |-> "surgery"],
    [id |-> "g3", name |-> "ventilator"],
    [id |-> "g4", name |-> "antibiotic"],
    [id |-> "g5", name |-> "staph"],
    [id |-> "g6", name |-> "asthma"] }

ApplyAnalyzeHAIRisks ==
  /\ applied.fn = "analyzeHAIRisks"
  /\ ~applied.done
  /\ applied' = Returned(applied, analyzeHAIRisks(applied.args[1], applied.args[2],
                                                  applied.args[3]))
  /\ UNCHANGED <<analysisVars, interactionVars, rerun, storeVars, serviceVars>>

ApplyExtractDirectFromFdaText ==
  /\ applied.fn = "extractDirectFromFdaText"
  /\ ~applied.done
  /\ applied' = Returned(applied,
                         extractDirectFromFdaText(applied.args[1], applied.args[2],
                                                  applied.args[3], applied.args[4]))
  /\ UNCHANGED <<analysisVars, interactionVars, rerun, storeVars, serviceVars>>

\* evaluateDiagnosticErrorRisk(symptoms, diagnoses), its two FDA requests
\* ending as args[3] says.
ApplyEvaluateDiagnosticErrorRisk ==
  /\ applied.fn = "evaluateDiagnosticErrorRisk"
  /\ ~applied.done
  /\ applied' = Returned(applied,
                         evaluateDiagnosticErrorRisk(applied.args[1], applied.args[2],
                                                     applied.args[3]))
  /\ UNCHANGED <<analysisVars, interactionVars, rerun, storeVars, serviceVars>>

NextFunctions ==
  \/ ApplyDetermineSeverity
  \/ ApplyDetermineSeverityFdaService
  \/ ApplyEvaluateDiagnosticErrorRisk
  \/ ApplyAnalyzeMedicationErrorRisks
  \/ ApplyAnalyzeHAIRisks
  \/ ApplyExtractDirectFromFdaText

\* One call of one function, with arguments drawn from the universes.
InitFunctions ==
  /\ IdleAnalysis
  /\ IdleInteractions
  /\ IdlePatientContext
  /\ IdleFdaService
  /\ applied \in CallsOf("determineSeverity", {<<d>> : d \in DescriptionUniverse})
                   \cup CallsOf("FdaService.determineSeverity",
                                {<<d>> : d \in DescriptionUniverse})
                   \cup CallsOf("evaluateDiagnosticErrorRisk",
                                SeqsUpTo(SymptomUniverse, MaxSymptoms)
                                  \X SeqsUpTo(DiagnosisUniverse, MaxDiagnoses)
                                  \X ExtOutcomes)
                   \cup CallsOf("analyzeMedicationErrorRisks",
                                {<<ms>> : ms \in SeqsUpTo(ErrorRiskMedicationUniverse,
                                                          MaxCallMedications)})
                   \cup CallsOf("analyzeHAIRisks",
                                SeqsUpTo(HaiSymptomUniverse, MaxSymptoms)
                                  \X SeqsUpTo(HaiDiagnosisUniverse, MaxDiagnoses)
                                  \X BOOLEAN)
                   \cup CallsOf("extractDirectFromFdaText",
                                {"Warfarin"} \X {"Ibuprofen"} \X {"minor", "moderate", "major"}
                                  \X SeqsUpTo(SentenceUniverse, MaxSentences))
SpecFunctions == InitFunctions /\ [][NextFunctions]_vars

\* One run of getComprehensiveSafetyAnalysis.
InitAnalysisRun == InitAnalysis /\ IdleInteractions /\ IdleFunctions /\ IdlePatientContext /\ IdleFdaService
SpecAnalysis == InitAnalysisRun /\ [][NextAnalysis]_vars

\* One run in which timers fire and the orchestrator's own steps are taken:
\* every setTimeout of safeApiCall that can still decide its race does, and
\* the code between awaits runs.  Nothing obliges an outbound request to be
\* answered.
TimersFire ==
  /\ WF_vars(Begin)
  /\ WF_vars(Extract)
  /\ \A k \in Analyses : WF_vars(Timeout(k))
SpecAnalysisTimersFire == InitAnalysisRun /\ [][NextAnalysis]_vars /\ TimersFire

\* One run of checkMedicationInteractions.
InitInteractionsRun == IdleAnalysis /\ InitInteractions /\ IdleFunctions /\ IdlePatientContext /\ IdleFdaService
SpecInteractions == InitInteractionsRun /\ [][NextInteractions]_vars

\* A behaviour is one run of one of the two operations.
Init ==
  \/ InitAnalysis /\ IdleInteractions /\ IdleFunctions /\ IdlePatientContext /\ IdleFdaService
  \/ IdleAnalysis /\ InitInteractions /\ IdleFunctions /\ IdlePatientContext /\ IdleFdaService

Next ==
  \/ Begin
  \/ \E k \in Analyses : AnalysisResponds(k)
  \/ \E k \in Analyses : Timeout(k)
  \/ \E k \in Analyses : LateCompletion(k)
  \/ Extract
  \/ MedEffectsResponds
  \/ CheckBegin
  \/ StrategyResponds

Spec == Init /\ [][Next]_vars

\* ---------------------------------------------------------- PatientContext
\* What the screens pass to the mutations (the record without its id).
ProfileInputs == {[name |-> "Ada"]}
MedicationInputs ==
  {[name |-> "Warfarin", dosage |-> "5mg", notes |-> UNDEFINED],
   [name |-> "Ibuprofen", dosage |-> "200mg", notes |-> "with food"]}
SymptomInputs == {[name |-> "Headache", severity |-> 9]}

\* JSON.stringify leaves out a property whose value is undefined; JSON.parse
\* yields an object in which reading that property gives undefined.
StringifyMedication(m) ==
  IF m.notes = UNDEFINED THEN [id |-> m.id, name |-> m.name, dosage |-> m.dosage] ELSE m
ParseMedication(j) ==
  IF "notes" \in DOMAIN j THEN j
  ELSE [id |-> j.id, name |-> j.name, dosage |-> j.dosage, notes |-> UNDEFINED]
Stringify(p) ==
  [json |-> [p EXCEPT !.medications = [i \in 1..Len(@) |-> StringifyMedication(@[i])]]]
Parse(item) ==
  [item.json EXCEPT !.medications = [i \in 1..Len(@) |-> ParseMedication(@[i])]]

\* initializePatient: the record with a fresh id and empty lists.
NewPatient(data, id) ==
  [id |-> id, name |-> data.name, medications |-> <<>>, symptoms |-> <<>>]
\* addMedication, addSymptom: the list with the new entry, under a fresh id.
WithMedication(p, medication, id) ==
  [p EXCEPT !.medications =
     Append(@, [id |-> id, name |-> medication.name, dosage |-> medication.dosage,
                notes |-> medication.notes])]
WithSymptom(p, symptom, id) ==
  [p EXCEPT !.symptoms =
     Append(@, [id |-> id, name |-> symptom.name, severity |-> symptom.severity])]
\* deleteMedication: the list without the entries of that id.
WithoutMedication(p, id) ==
  [p EXCEPT !.medications = SelectSeq(@, LAMBDA m : m.id # id)]

\* The item the application left in storage before this start.
StoredAtStart ==
  {NoItem, Stringify(NewPatient([name |-> "Ada"], 0)),
   Stringify(WithMedication(NewPatient([name |-> "Ada"], 0),
                            [name |-> "Warfarin", dosage |-> "5mg", notes |-> UNDEFINED], 0))}

\* A mutation calls savePatient(updated): the record is serialised and the
\* call suspends at setItem.  base is the patient the mutation read.
Save(op, updated) ==
  /\ started < MaxMutations
  /\ started' = started + 1
  /\ inflight' = inflight \cup
       {[n |-> started + 1, op |-> op, base |-> patient, updated |-> updated,
         item |-> Stringify(updated), since |-> Len(settled)]}
  /\ UNCHANGED <<patient, stored, loading, error, settled>>
  /\ UNCHANGED <<analysisVars, interactionVars, rerun, applied, serviceVars>>

\* loadPatient: getItem resolves.
LoadResolves ==
  /\ loading
  /\ patient' = IF stored # NoItem THEN Parse(stored) ELSE patient
  /\ loading' = FALSE
  /\ UNCHANGED <<stored, error, inflight, settled, started>>
  /\ UNCHANGED <<analysisVars, interactionVars, rerun, applied, serviceVars>>

\* loadPatient: getItem rejects.
LoadRejects ==
  /\ loading
  /\ error' = "Failed to load patient data"
  /\ loading' = FALSE
  /\ UNCHANGED <<patient, stored, inflight, settled, started>>
  /\ UNCHANGED <<analysisVars, interactionVars, rerun, applied, serviceVars>>

\* The profile screen shows its form once loading is false, and saves a new
\* profile with initializePatient when there is no patient.
InitializePatient(data) ==
  /\ ~loading
  /\ patient = NoPatient
  /\ Save("initializePatient", NewPatient(data, started + 1))

\* The other mutations return at once when there is no patient.
AddMedication(medication) ==
  /\ patient # NoPatient
  /\ Save("addMedication", WithMedication(patient, medication, started + 1))

AddSymptom(symptom) ==
  /\ patient # NoPatient
  /\ Save("addSymptom", WithSymptom(patient, symptom, started + 1))

DeleteMedication(id) ==
  /\ patient # NoPatient
  /\ \E x \in 1..Len(patient.medications) : patient.medications[x].id = id
  /\ Save("deleteMedication", WithoutMedication(patient, id))

\* Variant: the mutation's change is applied to the patient of the moment.
PatientMerged(current, m) ==
  IF current = NoPatient \/ m.op \notin {"addMedication", "addSymptom"} THEN m.updated
  ELSE IF m.op = "addMedication"
    THEN [current EXCEPT !.medications = Append(@, m.updated.medications[Len(m.updated.medications)])]
  ELSE [current EXCEPT !.symptoms = Append(@, m.updated.symptoms[Len(m.updated.symptoms)])]
\* setPatient(updatedPatient)
PatientSaved(current, m) == m.updated

\* Variant: the state is set although the write failed.
PatientSetAnyway(current, m) == m.updated
\* The catch block of savePatient does not call setPatient.
PatientAfterFailure(current, m) == current

\* setItem of mutation m resolves: the item is in storage, the state is set,
\* the mutation's promise resolves.
WriteResolves(m) ==
  /\ m \in inflight
  /\ stored' = m.item
  /\ patient' = PatientSaved(patient, m)
  /\ inflight' = inflight \ {m}
  /\ settled' = Append(settled, [m |-> m, written |-> TRUE, promise |-> "resolved"])
  /\ UNCHANGED <<loading, error, started>>
  /\ UNCHANGED <<analysisVars, interactionVars, rerun, applied, serviceVars>>

\* setItem of mutation m rejects: savePatient catches, sets error and returns.
WriteRejects(m) ==
  /\ m \in inflight
  /\ error' = "Failed to save patient data"
  /\ patient' = PatientAfterFailure(patient, m)
  /\ inflight' = inflight \ {m}
  /\ settled' = Append(settled, [m |-> m, written |-> FALSE, promise |-> "resolved"])
  /\ UNCHANGED <<stored, loading, started>>
  /\ UNCHANGED <<analysisVars, interactionVars, rerun, applied, serviceVars>>

NextPatientContext ==
  \/ LoadResolves
  \/ LoadRejects
  \/ \E data \in ProfileInputs : InitializePatient(data)
  \/ \E medication \in MedicationInputs : AddMedication(medication)
  \/ \E symptom \in SymptomInputs : AddSymptom(symptom)
  \/ \E id \in 0..MaxMutations : DeleteMedication(id)
  \/ \E m \in inflight : WriteResolves(m)
  \/ \E m \in inflight : WriteRejects(m)

\* The provider mounts: the state is empty and loadPatient is under way.
InitPatientContext ==
  /\ IdleAnalysis
  /\ IdleInteractions
  /\ IdleFunctions
  /\ IdleFdaService
  /\ patient = NoPatient
  /\ stored \in StoredAtStart
  /\ loading = TRUE
  /\ error = JsNull
  /\ inflight = {}
  /\ settled = <<>>
  /\ started = 0
SpecPatientContext == InitPatientContext /\ [][NextPatientContext]_vars

\* ------------ checkMedicationInteractions of services/FdaService.ts
\* (the two-strategy version), called by AnalysisScreen.checkInteractions
ServiceNameUniverse == {"Warfarin", "Ibuprofen"}
\* checkInteractions calls the service when the patient has two medications
\* or more, with their names.
ScreenMedicationLists ==
  {ms \in SeqsUpTo(ServiceNameUniverse, MaxMedNames) : Len(ms) >= 2}

\* The request for pair p, attempt a, in flight.
Lookup(p, a) == [i |-> p.i, j |-> p.j, attempt |-> a, ended |-> "pending"]
\* The last request of the history has ended.
LookupEnded(how) == [svcLookups EXCEPT ![Len(svcLookups)] = [@ EXCEPT !.ended = how]]

\* The record pushed for a pair (the texts extractSpecificHealthIssues derives
\* from the description are functions of it, left out here).
ServiceRecord(drug1, drug2, results) ==
  [drug1 |-> drug1, drug2 |-> drug2,
   severity |-> determineSeverityFdaService(TextOf(results[1])),
   description |-> TextOf(results[1])]

\* Variant: a rejected request is taken as an answer without results.
LookupSkipped(ans) == FALSE
\* await axios.get(...) throws when the request is rejected (network error
\* or a status outside 2xx); the one try block spans both loops.
LookupThrows(ans) == ans.threw

\* From the call to the first await (checkInteractions: setError(null)).
ServiceBegin ==
  /\ svcResult = "start"
  /\ svcResult' = "running"
  /\ svcPair' = 1
  /\ svcAttempt' = 1
  /\ svcLookups' = <<Lookup(LoopPairs(Len(svcMedications))[1], 1)>>
  /\ UNCHANGED <<svcMedications, svcInteractions, svcRejection, screenInteractions,
                 screenError>>
  /\ UNCHANGED <<analysisVars, interactionVars, rerun, applied, storeVars>>

\* The request in flight ends with ans: from there to the next await, to the
\* return or to the throw of the catch block, and on into checkInteractions.
ServiceResponds(ans) ==
  /\ svcResult = "running"
  /\ LET ps == LoopPairs(Len(svcMedications))
         p == ps[svcPair]
         results == IF ans.threw THEN <<>> ELSE ans.results
         found == Len(results) > 0 /\ results[1].di
         list == IF found
                   THEN Append(svcInteractions,
                               ServiceRecord(svcMedications[p.i], svcMedications[p.j], results))
                   ELSE svcInteractions
     IN IF LookupThrows(ans)
          THEN /\ svcResult' = "rejected"
               /\ svcRejection' = "Failed to check medication interactions"
               /\ screenError' = "Failed to check medication interactions. Please try again."
               /\ svcLookups' = LookupEnded("failed")
               /\ UNCHANGED <<svcPair, svcAttempt, svcInteractions, screenInteractions>>
        ELSE IF svcAttempt = 1 /\ Len(results) = 0
          THEN /\ svcAttempt' = 2
               /\ svcLookups' = Append(LookupEnded(IF ans.threw THEN "failed" ELSE "answered"),
                                       Lookup(p, 2))
               /\ UNCHANGED <<svcPair, svcInteractions, svcResult, svcRejection,
                              screenInteractions, screenError>>
        ELSE IF svcPair < Len(ps)
          THEN /\ svcPair' = svcPair + 1
               /\ svcAttempt' = 1
               /\ svcInteractions' = list
               /\ svcLookups' = Append(LookupEnded(IF ans.threw THEN "failed" ELSE "answered"),
                                       Lookup(ps[svcPair + 1], 1))
               /\ UNCHANGED <<svcResult, svcRejection, screenInteractions, screenError>>
        ELSE /\ svcResult' = "returned"
             /\ svcInteractions' = list
             /\ screenInteractions' = list
             /\ svcLookups' = LookupEnded(IF ans.threw THEN "failed" ELSE "answered")
             /\ UNCHANGED <<svcPair, svcAttempt, svcRejection, screenError>>
  /\ UNCHANGED svcMedications
  /\ UNCHANGED <<analysisVars, interactionVars, rerun, applied, storeVars>>

NextFdaService ==
  \/ ServiceBegin
  \/ \E ans \in Answers(1) : ServiceResponds(ans)

\* AnalysisScreen has mounted with a patient of two medications or more.
InitFdaService ==
  /\ IdleAnalysis
  /\ IdleInteractions
  /\ IdleFunctions
  /\ IdlePatientContext
  /\ svcMedications \in ScreenMedicationLists
  /\ svcPair = 0
  /\ svcAttempt = 0
  /\ svcInteractions = <<>>
  /\ svcResult = "start"
  /\ svcRejection = UNDEFINED
  /\ svcLookups = <<>>
  /\ screenInteractions = <<>>
  /\ screenError = JsNull
SpecFdaService == InitFdaService /\ [][NextFdaService]_vars

\* ================================================================ properties
\* ------------------------------------------ getComprehensiveSafetyAnalysis
\* Arguments shaped as the declared types: Symptom records (a name, no
\* description) and a medication array.
TypeShapedArguments == TypedSymptoms(symptoms) /\ medications.t = "array"
IsArray(x) == x.t = "array"

\* C1: for type-shaped symptom, diagnosis and medication lists and every
\* outcome of the sub-analyses (success, exception, timeout), the call never
\* rejects.
C1_NeverRejects == TypeShapedArguments => outcome # "rejected"

\* C2: every returned report, on the normal and on the catch path, has arrays
\* in symptomSafetyData, diagnosisSafetyData, medicationErrorRisks, haiRisks
\* and the two lists of medicationEffects, a diagnosticErrorRisk block with a
\* risk level and two arrays, and a status among success, partial, error.
C2_ReportShape ==
  outcome = "returned" =>
    /\ IsArray(report.symptomSafetyData)
    /\ IsArray(report.diagnosisSafetyData)
    /\ IsArray(report.medicationErrorRisks)
    /\ IsArray(report.haiRisks)
    /\ report.medicationEffects.t = "object"
    /\ IsArray(report.medicationEffects.v.medicationSymptomEffects)
    /\ IsArray(report.medicationEffects.v.medicationDiagnosisEffects)
    /\ report.diagnosticErrorRisk.t = "object"
    /\ report.diagnosticErrorRisk.v.riskLevel \in {"low", "medium", "high"}
    /\ IsArray(report.diagnosticErrorRisk.v.potentialConcerns)
    /\ IsArray(report.diagnosticErrorRisk.v.recommendations)
    /\ report.status \in {"success", "partial", "error"}

\* C2 witness: a report returned by the catch block, for a non-empty symptom list.
C2_CatchPathReportReturned ==
  outcome = "returned" /\ caught # UNDEFINED /\ Len(symptoms) > 0

\* C3: a returned report has status "success" only if no sub-analysis was
\* replaced by a fallback, and status "partial" whenever one was.
C3_StatusTellsFallbacks ==
  outcome = "returned" =>
    /\ report.status = "success" => fallbacks = {}
    /\ fallbacks # {} => report.status = "partial"

\* C4: when an exception reaches the top-level catch, a report is returned
\* with status "error" and the exception's message in error; status "error"
\* is returned in no other case.
C4_CatchReturnsError ==
  /\ (pc = "done" /\ caught # UNDEFINED) =>
       outcome = "returned" /\ report.status = "error" /\ report.error = caught
  /\ (outcome = "returned" /\ report.status = "error") => caught # UNDEFINED

\* C5: a finished run all of whose outbound requests failed returned a
\* report with status "partial" or "error".
C5_OutageNeverSuccess ==
  (pc = "done" /\ extIssued /\ ~extOk) =>
    outcome = "returned" /\ report.status \in {"partial", "error"}

ReportField(k) ==
  CASE k = "symptom" -> report.symptomSafetyData
    [] k = "diagnosis" -> report.diagnosisSafetyData
    [] OTHER -> report.diagnosticErrorRisk
InputsOf(k) == IF k = "symptom" THEN symptoms ELSE diagnoses
\* One locally generated record per input entity, or the canned block.
IsLocalFallback(k, f) ==
  IF k = "diagnosticError" THEN f = DiagnosticErrorFallback("without connectivity")
  ELSE IsArray(f) /\ Len(f.v) = Len(InputsOf(k))

\* C6: in a finished run in which one of the three raced analyses threw or
\* timed out, a report is returned whose field for each failed analysis is
\* the local fallback and whose field for each other analysis is exactly
\* the value that analysis produced.
C6_FailureIsolated ==
  (pc = "done" /\ medications.t = "array" /\ \E k \in Analyses : ~Truthy(safe[k])) =>
    /\ outcome = "returned"
    /\ \A k \in Analyses :
         IF Truthy(safe[k]) THEN ReportField(k) = safe[k]
         ELSE IsLocalFallback(k, ReportField(k))

\* C7: no retry: in one run each sub-analysis function is invoked at most
\* once, and each (pair, strategy) lookup is issued at most once.
C7_NoRetry ==
  /\ \A k \in SubAnalyses : calls[k] <= 1
  /\ \A x, y \in 1..Len(lookups) : x # y => lookups[x] # lookups[y]

\* C7 witness: a run that returned after the diagnosis analysis timed out,
\* the analysis having been invoked once.
C7_ReturnedAfterTimeout ==
  /\ outcome = "returned"
  /\ inner["diagnosis"] = "running"
  /\ safe["diagnosis"] = JsNull
  /\ calls["diagnosis"] = 1

\* ------------------------------------------------ checkMedicationInteractions
\* Empty or whitespace-only, as the specification words it.
IsBlankName(name) == name \in {"", " "}
HasBlankName == \E a \in 1..Len(medNames) : IsBlankName(medNames[a])
PairsLookedUp == {<<lookups[x][1], lookups[x][2]>> : x \in 1..Len(lookups)}
PairCount(n) == (n * (n - 1)) \div 2
IndexPairs == {<<a, b>> \in (1..Len(medNames)) \X (1..Len(medNames)) : a < b}

\* C8 as stated: for every list of length n, lookups are started for exactly
\* n(n-1)/2 index pairs.
C8_LookupsForEveryPair ==
  result = "returned" => Cardinality(PairsLookedUp) = PairCount(Len(medNames))

\* C8 amended: the loops reach exactly the n(n-1)/2 index pairs i < j, each
\* once and never as (j, i) or (i, i); lookups are started for exactly those
\* of them whose two names are both non-blank.
C8_LookupsForNonBlankPairs ==
  /\ \A x \in 1..Len(considered) : considered[x].i < considered[x].j
  /\ \A x, y \in 1..Len(considered) :
       x # y => <<considered[x].i, considered[x].j>> # <<considered[y].i, considered[y].j>>
  /\ PairsLookedUp \subseteq IndexPairs
  /\ result = "returned" =>
       /\ Len(considered) = PairCount(Len(medNames))
       /\ PairsLookedUp = {p \in IndexPairs : ~IsBlankName(medNames[p[1]])
                                              /\ ~IsBlankName(medNames[p[2]])}

\* C8 witness: a finished run on three names, one of them blank, with a lookup.
C8_ReturnedWithBlankAndLookups ==
  result = "returned" /\ Len(medNames) = 3 /\ HasBlankName /\ Len(lookups) > 0

\* C9: a pair with a blank name triggers no lookup and yields no record;
\* every record has non-blank drug1 = medications[i] and drug2 =
\* medications[j] for some i < j.
C9_BlankNamesSkipped ==
  /\ \A x \in 1..Len(lookups) :
       ~IsBlankName(medNames[lookups[x][1]]) /\ ~IsBlankName(medNames[lookups[x][2]])
  /\ \A x \in 1..Len(considered) :
       (IsBlankName(medNames[considered[x].i]) \/ IsBlankName(medNames[considered[x].j]))
         => considered[x].status = "skipped" /\ ~considered[x].recorded
  /\ \A r \in 1..Len(interactions) :
       /\ ~IsBlankName(interactions[r].drug1)
       /\ ~IsBlankName(interactions[r].drug2)
       /\ \E p \in IndexPairs : /\ interactions[r].drug1 = medNames[p[1]]
                                /\ interactions[r].drug2 = medNames[p[2]]

\* C9 witness: a finished run on a list with a blank name that returned a record.
C9_ReturnedRecordDespiteBlank ==
  result = "returned" /\ HasBlankName /\ Len(interactions) > 0

\* C10: a pair whose five strategies all failed yields no record, the call
\* does not reject, every remaining pair is still processed, and the records
\* of the other pairs are returned.
C10_FailedPairSkipped ==
  /\ result # "rejected"
  /\ \A x \in 1..Len(considered) :
       (considered[x].status = "done" /\ ~considered[x].hit) => ~considered[x].recorded
  /\ Len(interactions) = Cardinality({x \in 1..Len(considered) : considered[x].recorded})
  /\ result = "returned" =>
       /\ Len(considered) = PairCount(Len(medNames))
       /\ \A x \in 1..Len(considered) : considered[x].status \in {"skipped", "done"}

\* C10 witness: a finished run in which a pair whose five strategies failed
\* is followed by a pair that yielded a record.
C10_RecordAfterFailedPair ==
  /\ result = "returned"
  /\ \E x, y \in 1..Len(considered) :
       /\ x < y
       /\ considered[x].status = "done" /\ ~considered[x].hit
       /\ considered[y].recorded

\* An answer of strategies 1-4 that is a hit: a first result with a
\* drug_interactions section.
IsHitShaped(resp) == resp.t = "array" /\ Len(resp.v) > 0 /\ resp.v[1].di
LookupsOfPair(a, b) == {lookups[x][3] : x \in {y \in 1..Len(lookups) :
                                               lookups[y][1] = a /\ lookups[y][2] = b}}

\* C11: the strategies of a pair are attempted in the order 1, 2, 3, 4, 5;
\* strategy k+1 is attempted only when the answer of strategy k was no hit
\* (an exception included), and a pair that ended without a record had all
\* five attempted, so a pair stops early only at a hit.
C11_StrategyOrder ==
  /\ [](/\ \A x \in 1..Len(lookups) :
            \/ lookups[x][3] = 1
            \/ x > 1 /\ lookups[x - 1] = <<lookups[x][1], lookups[x][2], lookups[x][3] - 1>>
        /\ result = "running" => lookups[Len(lookups)] = <<pair.i, pair.j, strategy>>
        /\ \A x \in 1..Len(considered) :
             (considered[x].status = "done" /\ ~considered[x].recorded)
               => LookupsOfPair(considered[x].i, considered[x].j) = 1..5)
  /\ [][(result = "running" /\ strategy' = strategy + 1) =>
          (pair' = pair /\ ~IsHitShaped(response'))]_vars

\* C11 witness: a finished run in which a pair was resolved by strategy 3,
\* so that strategies 4 and 5 were not attempted for it.
C11_ResolvedByThirdStrategy ==
  /\ result = "returned"
  /\ \E x \in 1..Len(considered) :
       /\ considered[x].recorded
       /\ LookupsOfPair(considered[x].i, considered[x].j) = 1..3

\* The pairs that yielded a record, in the order the loops reached them.
RecordedPairs == SelectSeq(considered, LAMBDA e : e.recorded)

\* C12: the records are in pair-generation order: the pairs are reached in
\* lexicographic order of (i, j), and the r-th record is the record of the
\* r-th pair that yielded one, whatever strategy resolved it and however many
\* lookups failed.
C12_RecordsInPairOrder ==
  /\ \A x, y \in 1..Len(considered) :
       x < y => \/ considered[x].i < considered[y].i
                \/ considered[x].i = considered[y].i /\ considered[x].j < considered[y].j
  /\ Len(interactions) = Len(RecordedPairs)
  /\ \A r \in 1..Len(interactions) :
       /\ interactions[r].drug1 = medNames[RecordedPairs[r].i]
       /\ interactions[r].drug2 = medNames[RecordedPairs[r].j]

\* C12 witness: a finished run with two records resolved by different
\* strategies and a pair whose lookups all failed.
C12_TwoRecordsReturned ==
  /\ result = "returned"
  /\ Len(interactions) >= 2
  /\ LookupsOfPair(RecordedPairs[1].i, RecordedPairs[1].j)
       # LookupsOfPair(RecordedPairs[2].i, RecordedPairs[2].j)
  /\ \E x \in 1..Len(considered) : considered[x].status = "done" /\ ~considered[x].hit

SeverityMajorTerms ==
  {"contraindicated", "avoid", "not recommended", "severe", "serious",
   "life-threatening", "fatal", "death", "warning"}
SeverityModerateTerms ==
  {"caution", "monitor", "adjust", "modify", "increase", "decrease", "may affect",
   "potential"}
FdaServiceMajorTerms ==
  {"fatal", "severe", "dangerous", "life-threatening", "contraindicated", "serious",
   "death", "hemorrhage"}
FdaServiceModerateTerms ==
  {"caution", "monitor", "adjust", "may increase", "may decrease", "bleeding"}

\* The reference decision procedure over a major and a moderate term list.
ReferenceSeverity(description, major, moderate) ==
  LET text == ToLowerCase(description)
  IN IF \E t \in major : Includes(text, t) THEN "major"
     ELSE IF \E t \in moderate : Includes(text, t) THEN "moderate"
     ELSE "minor"

HasMajorAndModerateTerm(description, major, moderate) ==
  LET text == ToLowerCase(description)
  IN (\E t \in major : Includes(text, t)) /\ (\E t \in moderate : Includes(text, t))

IsWhitespaceOnly(description) == description \in {"", "   "}

\* C14: on every description each determineSeverity returns what the
\* reference procedure returns over that classifier's term lists: major if the
\* lower-cased text contains a major term, else moderate if it contains a
\* moderate term, else minor; a description with a major and a moderate term
\* is major, and an empty or whitespace-only description is minor.
C14_SeverityIsReference ==
  /\ (applied.fn = "determineSeverity" /\ applied.done) =>
       /\ applied.value = ReferenceSeverity(applied.args[1], SeverityMajorTerms,
                                            SeverityModerateTerms)
       /\ HasMajorAndModerateTerm(applied.args[1], SeverityMajorTerms,
                                  SeverityModerateTerms) => applied.value = "major"
       /\ IsWhitespaceOnly(applied.args[1]) => applied.value = "minor"
  /\ (applied.fn = "FdaService.determineSeverity" /\ applied.done) =>
       /\ applied.value = ReferenceSeverity(applied.args[1], FdaServiceMajorTerms,
                                            FdaServiceModerateTerms)
       /\ HasMajorAndModerateTerm(applied.args[1], FdaServiceMajorTerms,
                                  FdaServiceModerateTerms) => applied.value = "major"
       /\ IsWhitespaceOnly(applied.args[1]) => applied.value = "minor"

\* C14 witness: determineSeverity has classified a description that holds a
\* major and a moderate term.
C14_ClassifiedBothTerms ==
  /\ applied.fn = "determineSeverity"
  /\ applied.done
  /\ HasMajorAndModerateTerm(applied.args[1], SeverityMajorTerms, SeverityModerateTerms)
  /\ applied.value = "major"

\* ---------------------------------------------- evaluateDiagnosticErrorRisk
HasSevereSymptom(ss) == \E i \in 1..Len(ss) : ss[i].severity >= 7
InSeq(x, xs) == \E i \in 1..Len(xs) : xs[i] = x

\* C15: whenever the symptom list holds a symptom of severity >= 7 and the
\* diagnosis list is empty, evaluateDiagnosticErrorRisk returns riskLevel high
\* and the concern about severe symptoms without documented diagnoses,
\* however the FDA requests end.
C15_SevereUndiagnosedIsHigh ==
  (/\ applied.fn = "evaluateDiagnosticErrorRisk"
   /\ applied.done
   /\ HasSevereSymptom(applied.args[1])
   /\ Len(applied.args[2]) = 0) =>
    /\ ~applied.value.threw
    /\ applied.value.v.v.riskLevel = "high"
    /\ InSeq("severe symptoms without a diagnosis", applied.value.v.v.potentialConcerns.v)

\* No outbound request of the run failed or went unanswered: every symptom
\* got a record made from a remote answer, and with no diagnosis and no
\* medication no other request is made.
NoExternalFailure ==
  /\ IsArray(safe["symptom"])
  /\ Len(safe["symptom"].v) = Len(symptoms)
  /\ \A i \in 1..Len(safe["symptom"].v) :
       safe["symptom"].v[i].content \in {"remote:specific", "remote:general"}
  /\ Len(diagnoses) = 0
  /\ medications = JsArray(<<>>)

\* C16: in a returned report diagnosticErrorRisk is the diagnostic-error rule
\* applied to the run's symptoms and diagnoses: for a symptom of severity >= 7,
\* no diagnoses and no external failure, its riskLevel is high and its
\* concerns include the one about severe symptoms without a diagnosis; it is
\* not the canned 'unable to evaluate' block.
C16_ReportAppliesDiagnosticRule ==
  (outcome = "returned" /\ HasSevereSymptom(symptoms) /\ NoExternalFailure) =>
    /\ report.diagnosticErrorRisk.v.riskLevel = "high"
    /\ InSeq("severe symptoms without a diagnosis",
             report.diagnosticErrorRisk.v.potentialConcerns.v)
    /\ \A why \in {"without connectivity", "due to an error"} :
         report.diagnosticErrorRisk # DiagnosticErrorFallback(why)

\* ---------------------------------------------- analyzeMedicationErrorRisks
NameHasHighAlertTerm(name) == \E t \in HighAlertMeds : Includes(ToLowerCase(name), t)
NameHasLasaKey(name) == \E k \in 1..Len(LasaKeys) : Includes(ToLowerCase(name), LasaKeys[k])

\* C17: in the result of analyzeMedicationErrorRisks the record of a
\* medication whose lower-cased name contains a high-alert term has
\* highAlertStatus true and riskLevel high, also when the name matches a
\* look-alike key; the record of a medication whose name matches only a
\* look-alike key has riskLevel medium and a non-empty lookAlikeSoundAlike;
\* the record of a medication whose name matches neither has riskLevel low;
\* "Insulin Glargine" has highAlertStatus true and riskLevel high.
C17_RiskTierByTable ==
  (applied.fn = "analyzeMedicationErrorRisks" /\ applied.done) =>
    \A m \in 1..Len(applied.args[1]) :
      LET name == applied.args[1][m].name
          rec == applied.value.v.v[m]
      IN name # UNDEFINED =>
           /\ NameHasHighAlertTerm(name) =>
                rec.highAlertStatus /\ rec.riskLevel = "high"
           /\ (~NameHasHighAlertTerm(name) /\ NameHasLasaKey(name)) =>
                rec.riskLevel = "medium" /\ rec.lookAlikeSoundAlike # <<>>
           /\ (~NameHasHighAlertTerm(name) /\ ~NameHasLasaKey(name)) =>
                rec.riskLevel = "low"
           /\ name = "Insulin Glargine" => rec.highAlertStatus /\ rec.riskLevel = "high"

\* C17 witness: a result holding the record of a medication that is both
\* high-alert and look-alike, and the record of one that is only look-alike.
C17_BothTablesAndLasaOnly ==
  /\ applied.fn = "analyzeMedicationErrorRisks"
  /\ applied.done
  /\ Len(applied.args[1]) = 2
  /\ NameHasHighAlertTerm(applied.args[1][1].name)
  /\ NameHasLasaKey(applied.args[1][1].name)
  /\ applied.value.v.v[1].riskLevel = "high"
  /\ ~NameHasHighAlertTerm(applied.args[1][2].name)
  /\ NameHasLasaKey(applied.args[1][2].name)

\* C18: the result of analyzeMedicationErrorRisks is never empty: it holds one
\* record per input medication, in input order, or the single general-safety
\* record for an empty input; every record has non-empty commonErrors,
\* nearMisses and preventionStrategies.
C18_NeverEmptyGuidance ==
  (applied.fn = "analyzeMedicationErrorRisks" /\ applied.done) =>
    LET meds == applied.args[1]
        recs == applied.value.v.v
    IN /\ ~applied.value.threw
       /\ Len(recs) > 0
       /\ IF Len(meds) = 0
            THEN Len(recs) = 1 /\ recs[1].medicationName = "General Medication Safety"
            ELSE /\ Len(recs) = Len(meds)
                 /\ \A m \in 1..Len(meds) : recs[m].medicationName = meds[m].name
       /\ \A r \in 1..Len(recs) :
            /\ recs[r].commonErrors > 0
            /\ recs[r].nearMisses > 0
            /\ recs[r].preventionStrategies > 0

\* C18 witness: a result for two medications, the first in no table.
C18_RecordForUnlistedMedication ==
  /\ applied.fn = "analyzeMedicationErrorRisks"
  /\ applied.done
  /\ Len(applied.args[1]) = 2
  /\ applied.args[1][1].name = "Ibuprofen"
  /\ applied.args[1][2].name # "Ibuprofen"
  /\ Len(applied.value.v.v) = 2

\* ---------------------------------------------------------- analyzeHAIRisks
NoHaiKeywordMatch(ss, ds) ==
  /\ \A i \in 1..Len(ss) : ~\E kw \in HaiSymptomKeywords : Includes(ToLowerCase(ss[i].name), kw)
  /\ \A i \in 1..Len(ds) : ~\E kw \in HaiDiagnosisKeywords : Includes(ToLowerCase(ds[i].name), kw)

\* C19: analyzeHAIRisks never returns an empty list, whatever the symptoms,
\* diagnoses and recentHospitalization; when no symptom and no diagnosis
\* matches a watch-list keyword and recentHospitalization is false, the result
\* is the single record "HAI Prevention" with riskLevel low and empty
\* matchedSymptoms and matchedDiagnoses.
C19_HaiNeverEmpty ==
  (applied.fn = "analyzeHAIRisks" /\ applied.done /\ ~applied.value.threw) =>
    /\ Len(applied.value.v.v) > 0
    /\ (NoHaiKeywordMatch(applied.args[1], applied.args[2]) /\ ~applied.args[3]) =>
         /\ Len(applied.value.v.v) = 1
         /\ applied.value.v.v[1].haiType = "HAI Prevention"
         /\ applied.value.v.v[1].riskLevel = "low"
         /\ applied.value.v.v[1].matchedSymptoms = <<>>
         /\ applied.value.v.v[1].matchedDiagnoses = <<>>

\* C19 witness: the analysis has returned for a symptom and a diagnosis that
\* match no watch-list keyword, not recently hospitalized.
C19_PreventionForUnmatchedInput ==
  /\ applied.fn = "analyzeHAIRisks"
  /\ applied.done
  /\ Len(applied.args[1]) > 0
  /\ Len(applied.args[2]) > 0
  /\ NoHaiKeywordMatch(applied.args[1], applied.args[2])
  /\ ~applied.args[3]
  /\ applied.value.v.v[1].haiType = "HAI Prevention"

\* The symptom condition and the diagnosis condition of pattern p.
HaiSymptomCondition(p, ss) ==
  \A g \in p.symGroups : \E i \in 1..Len(ss) : \E kw \in g : Includes(ToLowerCase(ss[i].name), kw)
HaiDiagnosisCondition(p, ds) ==
  \E i \in 1..Len(ds) : \E kw \in p.diagKws : Includes(ToLowerCase(ds[i].name), kw)

\* C20: for each of the six infection types, whenever the symptom names
\* satisfy the type's symptom condition and the diagnosis names satisfy its
\* diagnosis condition, the result of analyzeHAIRisks holds a record of that
\* haiType, recentHospitalization being false.
C20_PatternYieldsRecord ==
  (applied.fn = "analyzeHAIRisks" /\ applied.done /\ ~applied.args[3]) =>
    \A k \in 1..Len(HaiPatterns) :
      (/\ HaiSymptomCondition(HaiPatterns[k], applied.args[1])
       /\ HaiDiagnosisCondition(HaiPatterns[k], applied.args[2])) =>
        /\ ~applied.value.threw
        /\ \E r \in 1..Len(applied.value.v.v) :
             applied.value.v.v[r].haiType = HaiPatterns[k].haiType

\* ------------------------------------------------- the report's record lists
\* A list of safety records holds one record per entity, in order, each
\* naming its entity (letter case aside).
OnePerSymptom(data, ss) ==
  /\ IsArray(data)
  /\ Len(data.v) = Len(ss)
  /\ \A i \in 1..Len(ss) : ToLowerCase(data.v[i].symptomName) = ToLowerCase(ss[i].name)
OnePerDiagnosis(data, ds) ==
  /\ IsArray(data)
  /\ Len(data.v) = Len(ds)
  /\ \A i \in 1..Len(ds) : ToLowerCase(data.v[i].diagnosisName) = ToLowerCase(ds[i].name)

\* C21: for type-shaped arguments a finished run has returned a report whose
\* symptomSafetyData holds exactly one record per input symptom, in input
\* order and naming that symptom, and whose diagnosisSafetyData holds exactly
\* one record per input diagnosis, whether the analyses succeeded or the
\* orchestrator substituted its mock fallback.
C21_OneRecordPerEntity ==
  (pc = "done" /\ TypeShapedArguments) =>
    /\ outcome = "returned"
    /\ OnePerSymptom(report.symptomSafetyData, symptoms)
    /\ OnePerDiagnosis(report.diagnosisSafetyData, diagnoses)

\* ------------------------------------------------ extractDirectFromFdaText
\* C22: the texts of an interaction record: between 1 and 4 possibleEffects,
\* between 1 and 4 recommendations, each a non-empty string, and a non-empty simplifiedExplanation, whatever the description
\* and the severity.
C22_TextsBounded ==
  (applied.fn = "extractDirectFromFdaText" /\ applied.done) =>
    /\ Len(applied.value.possibleEffects) \in 1..4
    /\ Len(applied.value.recommendations) \in 1..4
    /\ applied.value.simplifiedExplanation # ""
    /\ \A i \in 1..Len(applied.value.possibleEffects) : applied.value.possibleEffects[i] # ""
    /\ \A i \in 1..Len(applied.value.recommendations) :
         applied.value.recommendations[i] # ""

\* C22 witness: a description with five recommendation sentences, none of
\* them an effect or relevant sentence, has been processed.
C22_FiveRecommendationSentences ==
  /\ applied.fn = "extractDirectFromFdaText"
  /\ applied.done
  /\ Len(applied.args[4]) = 5
  /\ \A i \in 1..5 : applied.args[4][i] = "Avoid concurrent use of these drugs"
  /\ Len(applied.value.recommendations) = 4
  /\ Len(applied.value.possibleEffects) = 1

\* ---------------------------------------------- the records of a run, by text
\* The run had the medications Warfarin and Ibuprofen, made the strategy-1
\* lookup only, and that lookup hit.
WarfarinIbuprofenFirstHit ==
  /\ medNames = <<"Warfarin", "Ibuprofen">>
  /\ result = "returned"
  /\ lookups = <<<<1, 2, 1>>>>
  /\ considered[1].hit

\* C23: for the medications Warfarin and Ibuprofen, when the strategy-1 lookup
\* hits, the run returns exactly one record, with drug1 Warfarin and drug2
\* Ibuprofen; and when the label's text is the one saying that ibuprofen
\* increases the risk of bleeding and that concurrent use is to be avoided,
\* the record's severity is major, the bleeding-risk sentence is one of its
\* possibleEffects, and its recommendations are not empty.
C23_WarfarinIbuprofenRecord ==
  WarfarinIbuprofenFirstHit =>
    /\ Len(interactions) = 1
    /\ interactions[1].drug1 = "Warfarin"
    /\ interactions[1].drug2 = "Ibuprofen"
    /\ interactions[1].description = LabelTextMentioning =>
         /\ interactions[1].severity = "major"
         /\ InSeq("Ibuprofen increases the risk of bleeding with warfarin.",
                  interactions[1].possibleEffects)
         /\ Len(interactions[1].recommendations) > 0

\* C23 witness: the scenario's run has returned, with the record of the
\* bleeding-risk text.
C23_ScenarioReturned ==
  /\ WarfarinIbuprofenFirstHit
  /\ Len(interactions) = 1
  /\ interactions[1].description = LabelTextMentioning
  /\ interactions[1].recommendations = <<"Avoid concurrent use of these drugs.">>

\* ---------------------------------- evaluateDiagnosticErrorRisk: duplicates
NoDuplicates(xs) == \A i, j \in 1..Len(xs) : i # j => xs[i] # xs[j]

\* C24: the potentialConcerns and the recommendations that
\* evaluateDiagnosticErrorRisk returns hold no string twice.
C24_NoDuplicateStrings ==
  (/\ applied.fn = "evaluateDiagnosticErrorRisk"
   /\ applied.done
   /\ ~applied.value.threw)
    => /\ NoDuplicates(applied.value.v.v.potentialConcerns.v)
       /\ NoDuplicates(applied.value.v.v.recommendations.v)

\* C24 witness: the call had two severe symptoms of the same name and no
\* diagnosis, the FDA requests were answered (a reaction term recurring, two
\* results each adding the advice), and it returned the concern of the
\* symptom and the FDA advice.
C24_SameNameTwiceReturned ==
  /\ applied.fn = "evaluateDiagnosticErrorRisk"
  /\ applied.done
  /\ Len(applied.args[1]) = 2
  /\ applied.args[1][1].name = "Headache"
  /\ applied.args[1][2].name = "Headache"
  /\ applied.args[1][1].severity >= 7
  /\ applied.args[2] = <<>>
  /\ applied.args[3] = "general"
  /\ InSeq("not addressed: Headache", applied.value.v.v.potentialConcerns.v)
  /\ InSeq("headache has been associated with diagnostic errors",
           applied.value.v.v.potentialConcerns.v)
  /\ InSeq("fda: tell your doctor", applied.value.v.v.recommendations.v)

\* ---------------------------------------------------------- PatientContext
\* The positions in settled of the mutations whose write succeeded.
WrittenAt == {x \in 1..Len(settled) : settled[x].written}
LastWritten == CHOOSE y \in WrittenAt : \A z \in WrittenAt : z <= y

\* Mutations x and y (positions in settled) read the same patient, and each
\* started before the other's write completed.
Overlapping(x, y) ==
  /\ x < y
  /\ settled[x].m.base = settled[y].m.base
  /\ settled[y].m.since < x

\* The entry that the adding mutation at position x created is not in p.
AdditionAbsent(x, p) ==
  /\ \A i \in 1..Len(p.medications) : p.medications[i].id # settled[x].m.n
  /\ \A i \in 1..Len(p.symptoms) : p.symptoms[i].id # settled[x].m.n

\* C25: when two mutations read the same patient before either has saved and
\* both writes succeed, the stored and the in-memory record are the record of
\* the one that saved last (until a later write), and what the other one
\* added is not in it.
C25_LastWriterWins ==
  \A x, y \in WrittenAt :
    (Overlapping(x, y) /\ y = LastWritten)
      => /\ stored = settled[y].m.item
         /\ patient = settled[y].m.updated
         /\ settled[x].m.op \in {"addMedication", "addSymptom"} => AdditionAbsent(x, patient)

\* C25 witness: addMedication and addSymptom read the same patient, the
\* medication was saved first, the symptom last; no mutation is in flight.
C25_MedicationLostToSymptom ==
  /\ inflight = {}
  /\ Len(settled) = 2
  /\ WrittenAt = {1, 2}
  /\ Overlapping(1, 2)
  /\ settled[1].m.op = "addMedication"
  /\ settled[2].m.op = "addSymptom"
  /\ Len(patient.symptoms) = Len(settled[2].m.base.symptoms) + 1

\* C29: a mutation whose write fails leaves patient (and the stored item)
\* as they were, sets error, and its promise resolves; and whenever loading is
\* over and no mutation is in flight, patient is the record last written to
\* storage, or, before any write, the record loaded at start-up (none when the
\* key was not set).
C29_FailedWriteKeepsPatient ==
  /\ [][\A m \in inflight :
          (m \notin inflight' /\ ~settled'[Len(settled')].written)
            => /\ patient' = patient
               /\ stored' = stored
               /\ error' = "Failed to save patient data"
               /\ settled'[Len(settled')].promise = "resolved"]_vars
  /\ []((~loading /\ inflight = {}) =>
          IF WrittenAt # {}
            THEN patient = settled[LastWritten].m.updated /\ stored = Stringify(patient)
            ELSE /\ patient # NoPatient => stored = Stringify(patient)
                 /\ stored = NoItem => patient = NoPatient)

\* C29 witness: a write succeeded, a later one failed, nothing is in flight:
\* the patient is the one written first.
C29_FailureAfterSuccess ==
  /\ inflight = {}
  /\ Len(settled) = 2
  /\ settled[1].written
  /\ ~settled[2].written
  /\ settled[2].m.updated # settled[1].m.updated
  /\ patient = settled[1].m.updated
  /\ error = "Failed to save patient data"

\* ------------------------------ getComprehensiveSafetyAnalysis: termination
\* C26: when timers fire, every run of getComprehensiveSafetyAnalysis comes to
\* an end (it returns its report), whether or not the outbound requests are
\* ever answered.
C26_EveryRunEnds == <>(outcome # "running")

\* ------------------------------------ checkMedicationInteractions: hits
\* The pairs for which some strategy set hasResults.
HitPairs == SelectSeq(considered, LAMBDA e : e.hit)

\* C27: whenever a strategy reports a hit for a pair, exactly one record for
\* that pair is appended: every pair with a hit has its record, and there are
\* as many records as pairs with a hit.
C27_HitYieldsOneRecord ==
  /\ \A x \in 1..Len(considered) : considered[x].hit => considered[x].recorded
  /\ Len(interactions) = Len(HitPairs)

\* ------------------------- getComprehensiveSafetyAnalysis: late completions
\* The value the orchestrator substitutes for analysis k on its normal path.
FallbackValue(k) ==
  CASE k = "symptom" -> MockSymptoms(symptoms).v
    [] k = "diagnosis" -> MockDiagnoses(diagnoses).v
    [] OTHER -> DiagnosticErrorFallback("without connectivity")

\* C28: when a raced analysis settles after its timer has decided the race,
\* nothing changes: safeApiCall's value, the extracted values, the report and
\* the outcome stay as they are; a report returned on the normal path while
\* the analysis is still running holds the fallback value in its field; and
\* a returned report never changes.
C28_LateCompletionIgnored ==
  /\ [][\A k \in Analyses :
          (inner[k] = "running" /\ safe[k] # Pending /\ inner'[k] = "settled")
            => /\ safe' = safe
               /\ locals' = locals
               /\ report' = report
               /\ outcome' = outcome]_vars
  /\ [][outcome = "returned" => (report' = report /\ outcome' = outcome)]_vars
  /\ [](\A k \in Analyses :
          (outcome = "returned" /\ caught = UNDEFINED /\ inner[k] = "running")
            => ReportField(k) = FallbackValue(k))

\* C28 witness: the diagnosis analysis of named diagnoses (which never
\* settles with null of its own) lost to its timer, the report was returned
\* with the fallback records, and the analysis has settled since.
C28_SettledAfterReturn ==
  /\ outcome = "returned"
  /\ caught = UNDEFINED
  /\ Len(diagnoses) > 0
  /\ \A d \in 1..Len(diagnoses) : diagnoses[d].name # UNDEFINED
  /\ safe["diagnosis"] = JsNull
  /\ inner["diagnosis"] = "settled"
  /\ report.diagnosisSafetyData = FallbackValue("diagnosis")

\* ------------ checkMedicationInteractions of services/FdaService.ts
\* The requests of the history that were rejected.
FailedLookups == {x \in 1..Len(svcLookups) : svcLookups[x].ended = "failed"}

\* C30: a lookup that fails aborts the call: it is the last request issued,
\* the call has rejected with 'Failed to check medication interactions', and
\* the caller has received no list, whatever records had been built.
C30_FailedLookupAborts ==
  \A x \in FailedLookups :
    /\ x = Len(svcLookups)
    /\ svcResult = "rejected"
    /\ svcRejection = "Failed to check medication interactions"
    /\ screenInteractions = <<>>
    /\ screenError = "Failed to check medication interactions. Please try again."

\* C30 witness: of three medications the first pair yielded a record, the
\* lookup of the second pair failed, the third pair was never looked up, and
\* the call has rejected.
C30_RejectedWithRecordBuilt ==
  /\ svcResult = "rejected"
  /\ Len(svcMedications) = 3
  /\ Len(svcInteractions) = 1
  /\ FailedLookups = {Len(svcLookups)}
  /\ svcLookups[Len(svcLookups)].i = 1
  /\ svcLookups[Len(svcLookups)].j = 3
  /\ screenInteractions = <<>>
====
